---- MODULE Spec2Model ----
(***************************************************************************)
(* A model of diomanim's scene graph (src/scene/mod.rs) and of its         *)
(* keyframe animation core (src/animation/property.rs, src/core/time.rs).  *)
(*                                                                         *)
(* Representation.  An f32 is modelled in fixed point: F32(n) is the model *)
(* of the float n, and one model unit is 1/16.  Sums and differences are   *)
(* integer sums and differences; a product or quotient is rescaled with    *)
(* \div.  Option<T> is a sequence of length at most one (None is << >>,    *)
(* Some(x) is <<x>>), Vec<T> is a sequence, HashMap<NodeId, SceneNode> is  *)
(* a function whose domain is the set of ids present.  A Vector3 is        *)
(* <<x, y, z>>, a Quaternion <<x, y, z, w>>.  SceneNode.name and           *)
(* AnimationClip.name / speed are never read by the code modelled here and *)
(* are left out.                                                           *)
(***************************************************************************)
EXTENDS Integers, Sequences, FiniteSets, TLC

VARIABLES nodes, root_nodes, next_id, ret

vars == <<nodes, root_nodes, next_id, ret>>

\* Ids are handed out up to MaxId (next_id is a u32 in the code).
MaxId == 3

---------------------------------------------------------------------------
\* Values

F32(n) == n * 16

None == << >>

Some(x) == <<x>>

Vector3_new(x, y, z) == <<F32(x), F32(y), F32(z)>>

Vector3_zero == Vector3_new(0, 0, 0)

Vector3_one == Vector3_new(1, 1, 1)

Vector3_add(a, b) == <<a[1] + b[1], a[2] + b[2], a[3] + b[3]>>

\* the product of two f32 in fixed point
F32_mul(a, b) == (a * b) \div F32(1)

Quaternion_identity == <<F32(0), F32(0), F32(0), F32(1)>>

Transform_new ==
    [position |-> Vector3_zero, rotation |-> Quaternion_identity, scale |-> Vector3_one]

\* Vec::retain(|&id| id != x)
Retain(s, x) == SelectSeq(s, LAMBDA e : e # x)

\* Vec::contains
Contains(s, x) == \E i \in 1..Len(s) : s[i] = x

---------------------------------------------------------------------------
\* SceneNode

SceneNode_with_transform(id, transform) ==
    [id |-> id,
     local_transform |-> transform,
     world_transform |-> Transform_new,
     parent |-> None,
     children |-> << >>,
     visible |-> TRUE,
     opacity |-> F32(1),
     renderable |-> None,
     animations |-> << >>]

SceneNode_new(id) == SceneNode_with_transform(id, Transform_new)

---------------------------------------------------------------------------
\* SceneGraph: a graph value is [nodes, root_nodes, next_id]

G == [nodes |-> nodes, root_nodes |-> root_nodes, next_id |-> next_id]

SceneGraph_new == [nodes |-> << >>, root_nodes |-> << >>, next_id |-> 1]

HasNode(g, id) == id \in DOMAIN g.nodes

\* HashMap::insert
Insert(m, id, node) == [k \in (DOMAIN m) \cup {id} |-> IF k = id THEN node ELSE m[k]]

\* HashMap::remove
Remove(m, id) == [k \in (DOMAIN m) \ {id} |-> m[k]]

create_node_with_transform(g, transform) ==
    LET id == g.next_id
    IN  [g |-> [nodes |-> Insert(g.nodes, id, SceneNode_with_transform(id, transform)),
                root_nodes |-> Append(g.root_nodes, id),
                next_id |-> g.next_id + 1],
         result |-> id]

\* a create_node that hands out the lowest id no node holds
create_node_lowest_free(g) ==
    LET id == CHOOSE k \in 1..g.next_id : k \notin DOMAIN g.nodes /\ \A j \in 1..(k - 1) : j \in DOMAIN g.nodes
    IN  [g |-> [nodes |-> Insert(g.nodes, id, SceneNode_new(id)),
                root_nodes |-> Append(g.root_nodes, id),
                next_id |-> g.next_id + 1],
         result |-> id]

create_node(g) ==
    LET id == g.next_id
    IN  [g |-> [nodes |-> Insert(g.nodes, id, SceneNode_new(id)),
                root_nodes |-> Append(g.root_nodes, id),
                next_id |-> g.next_id + 1],
         result |-> id]

\* The loop of would_create_cycle.  A walk of more steps than there are
\* nodes has entered a cycle of parent links that does not hold child_id,
\* and the code's loop never returns: "diverges".
RECURSIVE cycle_walk(_, _, _, _)
cycle_walk(g, current, child_id, fuel) ==
    IF ~HasNode(g, current) THEN "false"
    ELSE IF current = child_id THEN "true"
    ELSE IF g.nodes[current].parent = None THEN "false"
    ELSE IF fuel = 0 THEN "diverges"
    ELSE cycle_walk(g, g.nodes[current].parent[1], child_id, fuel - 1)

\* a cycle check that only looks at the proposed parent itself
would_create_cycle_self_only(g, child_id, parent_id) ==
    IF parent_id = child_id THEN "true" ELSE "false"

would_create_cycle(g, child_id, parent_id) ==
    cycle_walk(g, parent_id, child_id, Cardinality(DOMAIN g.nodes))

\* parent_link that leaves the child in its old parent's children list
parent_link_no_detach(g, child_id, parent_id) ==
    LET roots1 == Retain(g.root_nodes, child_id)
        nodes2 == [g.nodes EXCEPT ![child_id].parent = Some(parent_id)]
        parent_children == nodes2[parent_id].children
        nodes3 == [nodes2 EXCEPT ![parent_id].children =
                      IF Contains(parent_children, child_id)
                      THEN parent_children
                      ELSE Append(parent_children, child_id)]
    IN  [g |-> [g EXCEPT !.root_nodes = roots1, !.nodes = nodes3], result |-> "Ok"]

\* parent_link that pushes the child without looking for it first
parent_link_always_push(g, child_id, parent_id) ==
    LET roots1 == Retain(g.root_nodes, child_id)
        old_parent_id == g.nodes[child_id].parent
        detach == old_parent_id # None /\ old_parent_id[1] # parent_id
        nodes1 == IF detach /\ HasNode(g, old_parent_id[1])
                  THEN [g.nodes EXCEPT ![old_parent_id[1]].children = Retain(@, child_id)]
                  ELSE g.nodes
        nodes2 == [nodes1 EXCEPT ![child_id].parent = Some(parent_id)]
        nodes3 == [nodes2 EXCEPT ![parent_id].children = Append(@, child_id)]
    IN  [g |-> [g EXCEPT !.root_nodes = roots1, !.nodes = nodes3], result |-> "Ok"]

\* parent_link that leaves the child on the root list
parent_link_keeps_root(g, child_id, parent_id) ==
    LET old_parent_id == g.nodes[child_id].parent
        detach == old_parent_id # None /\ old_parent_id[1] # parent_id
        nodes1 == IF detach /\ HasNode(g, old_parent_id[1])
                  THEN [g.nodes EXCEPT ![old_parent_id[1]].children = Retain(@, child_id)]
                  ELSE g.nodes
        nodes2 == [nodes1 EXCEPT ![child_id].parent = Some(parent_id)]
        parent_children == nodes2[parent_id].children
        nodes3 == [nodes2 EXCEPT ![parent_id].children =
                      IF Contains(parent_children, child_id)
                      THEN parent_children
                      ELSE Append(parent_children, child_id)]
    IN  [g |-> [g EXCEPT !.nodes = nodes3], result |-> "Ok"]

\* The mutation part of parent(), lines 352-377.  unwrap() on a missing
\* old parent panics after root_nodes was already changed.
parent_link(g, child_id, parent_id) ==
    LET roots1 == Retain(g.root_nodes, child_id)
        old_parent_id == g.nodes[child_id].parent
        detach == old_parent_id # None /\ old_parent_id[1] # parent_id
    IN  IF detach /\ ~HasNode(g, old_parent_id[1])
        THEN [g |-> [g EXCEPT !.root_nodes = roots1], result |-> "Panic"]
        ELSE
        LET nodes1 == IF detach
                      THEN [g.nodes EXCEPT ![old_parent_id[1]].children =
                                               Retain(@, child_id)]
                      ELSE g.nodes
            nodes2 == [nodes1 EXCEPT ![child_id].parent = Some(parent_id)]
            parent_children == nodes2[parent_id].children
            nodes3 == [nodes2 EXCEPT ![parent_id].children =
                          IF Contains(parent_children, child_id)
                          THEN parent_children
                          ELSE Append(parent_children, child_id)]
        IN  [g |-> [g EXCEPT !.root_nodes = roots1, !.nodes = nodes3],
             result |-> "Ok"]

\* parent() that takes the child off the root list before the cycle check
parent_act_then_check(g, child_id, parent_id) ==
    IF ~HasNode(g, child_id) THEN [g |-> g, result |-> "ChildNotFound"]
    ELSE IF ~HasNode(g, parent_id) THEN [g |-> g, result |-> "ParentNotFound"]
    ELSE LET g1 == [g EXCEPT !.root_nodes = Retain(@, child_id)]
         IN  IF would_create_cycle(g, child_id, parent_id) = "true"
             THEN [g |-> g1, result |-> "CycleDetected"]
             ELSE parent_link(g1, child_id, parent_id)

parent(g, child_id, parent_id) ==
    IF ~HasNode(g, child_id) THEN [g |-> g, result |-> "ChildNotFound"]
    ELSE IF ~HasNode(g, parent_id) THEN [g |-> g, result |-> "ParentNotFound"]
    ELSE LET c == would_create_cycle(g, child_id, parent_id)
         IN  IF c = "diverges" THEN [g |-> g, result |-> "Diverges"]
             ELSE IF c = "true" THEN [g |-> g, result |-> "CycleDetected"]
             ELSE parent_link(g, child_id, parent_id)

RECURSIVE remove_node(_, _)
RECURSIVE remove_children(_, _)
\* a removal that does not cascade to the children
remove_children_skip(g, children) == g

\* the loop "for child_id in &node.children { self.remove_node(*child_id); }"
remove_children(g, children) ==
    IF children = << >> THEN g
    ELSE remove_children(remove_node(g, Head(children)).g, Tail(children))

remove_node(g, node_id) ==
    IF ~HasNode(g, node_id) THEN [g |-> g, result |-> None]
    ELSE
    LET node == g.nodes[node_id]
        nodes1 == Remove(g.nodes, node_id)
        roots1 == Retain(g.root_nodes, node_id)
        nodes2 == IF node.parent # None /\ node.parent[1] \in DOMAIN nodes1
                  THEN [nodes1 EXCEPT ![node.parent[1]].children = Retain(@, node_id)]
                  ELSE nodes1
        g2 == [g EXCEPT !.nodes = nodes2, !.root_nodes = roots1]
    IN  [g |-> remove_children(g2, node.children), result |-> Some(node)]

get_node(g, id) == IF HasNode(g, id) THEN Some(g.nodes[id]) ELSE None

\* a world transform that takes position from the parent but not scale
compose_world_local_scale(parent_world, local) ==
    [position |-> Vector3_add(parent_world.position, local.position),
     rotation |-> local.rotation,
     scale |-> local.scale]

\* world transform of a node under parent_world, lines 428-435
compose_world(parent_world, local) ==
    [position |-> Vector3_add(parent_world.position, local.position),
     rotation |-> local.rotation,
     scale |-> <<F32_mul(parent_world.scale[1], local.scale[1]),
                 F32_mul(parent_world.scale[2], local.scale[2]),
                 F32_mul(parent_world.scale[3], local.scale[3])>>]

RECURSIVE update_node_transform_recursive(_, _, _)
RECURSIVE update_children_transform(_, _, _)
\* the loop over children, lines 451-453
update_children_transform(g, children, world_transform) ==
    IF children = << >> THEN g
    ELSE update_children_transform(
             update_node_transform_recursive(g, Head(children), world_transform),
             Tail(children), world_transform)

update_node_transform_recursive(g, node_id, parent_world) ==
    IF HasNode(g, node_id)
    THEN LET node == g.nodes[node_id]
             world == compose_world(parent_world, node.local_transform)
             g1 == [g EXCEPT !.nodes[node_id].world_transform = world]
         IN  update_children_transform(g1, node.children, world)
    ELSE g

RECURSIVE update_roots(_, _)
\* the loop over root_ids, lines 417-419
update_roots(g, root_ids) ==
    IF root_ids = << >> THEN g
    ELSE update_roots(update_node_transform_recursive(g, Head(root_ids), Transform_new),
                      Tail(root_ids))

update_transforms(g) ==
    LET reset == [g EXCEPT !.nodes =
                     [n \in DOMAIN g.nodes |->
                         [g.nodes[n] EXCEPT !.world_transform = g.nodes[n].local_transform]]]
    IN  update_roots(reset, g.root_nodes)

\* SceneNode::compute_model_matrix: column-major, no rotation
compute_model_matrix(node) ==
    LET pos == node.world_transform.position
        scale == node.world_transform.scale
    IN  <<<<scale[1], F32(0), F32(0), F32(0)>>,
          <<F32(0), scale[2], F32(0), F32(0)>>,
          <<F32(0), F32(0), scale[3], F32(0)>>,
          <<pos[1], pos[2], pos[3], F32(1)>>>>

RECURSIVE gather_renderables_recursive(_, _, _)
RECURSIVE gather_children(_, _, _)
\* the loop over node.children, lines 498-500
gather_children(g, children, renderables) ==
    IF children = << >> THEN renderables
    ELSE gather_children(g, Tail(children),
                         gather_renderables_recursive(g, Head(children), renderables))

\* a gather that skips a hidden node's own entry but still descends into it
gather_renderables_no_prune(g, node_id, renderables) ==
    IF HasNode(g, node_id)
    THEN LET node == g.nodes[node_id]
             r1 == IF node.visible /\ node.opacity > F32(0) /\ node.renderable # None
                   THEN Append(renderables,
                               <<compute_model_matrix(node), node.renderable[1], node.opacity>>)
                   ELSE renderables
         IN  gather_children(g, node.children, r1)
    ELSE renderables

gather_renderables_recursive(g, node_id, renderables) ==
    IF HasNode(g, node_id) /\ g.nodes[node_id].visible /\ g.nodes[node_id].opacity > F32(0)
    THEN LET node == g.nodes[node_id]
             r1 == IF node.renderable # None
                   THEN Append(renderables,
                               <<compute_model_matrix(node), node.renderable[1], node.opacity>>)
                   ELSE renderables
         IN  gather_children(g, node.children, r1)
    ELSE renderables

RECURSIVE gather_roots(_, _, _)
\* the loop over root_nodes, lines 475-477
gather_roots(g, roots, renderables) ==
    IF roots = << >> THEN renderables
    ELSE gather_roots(g, Tail(roots), gather_renderables_recursive(g, Head(roots), renderables))

get_visible_renderables(g) == gather_roots(g, g.root_nodes, << >>)

\* a clamp that only cuts at the upper end
clamp_upper_only(x, lo, hi) == IF x > hi THEN hi ELSE x

\* f32::clamp
clamp(x, lo, hi) == IF x < lo THEN lo ELSE IF x > hi THEN hi ELSE x

\* SceneGraph::add_circle: create_node, then set_renderable
add_circle(g, radius, color) ==
    LET r == create_node(g)
    IN  [g |-> [r.g EXCEPT !.nodes[r.result].renderable =
                    Some([kind |-> "Circle", radius |-> radius, color |-> color])],
         result |-> r.result]

\* NodeBuilder::opacity
builder_opacity(g, node_id, opacity) ==
    IF HasNode(g, node_id)
    THEN [g EXCEPT !.nodes[node_id].opacity = clamp(opacity, F32(0), F32(1))]
    ELSE g

\* NodeBuilder::visible
builder_visible(g, node_id, visible) ==
    IF HasNode(g, node_id) THEN [g EXCEPT !.nodes[node_id].visible = visible] ELSE g

\* NodeBuilder::parent_to: the Result of parent() is dropped
builder_parent_to(g, node_id, parent_id) == parent(g, node_id, parent_id).g

---------------------------------------------------------------------------
\* TimeValue (src/core/time.rs): seconds as an f32, in fixed point

\* value.max(0.0)
TimeValue_new(value) == IF value > F32(0) THEN value ELSE F32(0)

TimeValue_add(a, b) == TimeValue_new(a + b)

TimeValue_sub(a, b) == TimeValue_new(a - b)

\* impl AddAssign: self.value += other.value, without TimeValue::new
TimeValue_add_assign(a, b) == a + b

\* impl SubAssign: self.value -= other.value, without TimeValue::new
TimeValue_sub_assign(a, b) == a - b

\* the f32 remainder: it has the sign of the dividend
F32_rem(a, b) ==
    LET m == IF b < 0 THEN -b ELSE b
    IN  IF a >= 0 THEN a % m ELSE -((-a) % m)

TimeValue_rem(a, b) ==
    IF b = F32(0) THEN TimeValue_new(F32(0)) ELSE TimeValue_new(F32_rem(a, b))

\* the quotient of two f32 in fixed point
F32_div(a, b) == (a * F32(1)) \div b

---------------------------------------------------------------------------
\* Keyframes, tracks and clips (src/animation/property.rs)

\* impl Animatable for Vector3
Vector3_lerp(a, b, t) ==
    <<a[1] + F32_mul(b[1] - a[1], t), a[2] + F32_mul(b[2] - a[2], t),
      a[3] + F32_mul(b[3] - a[3], t)>>

Keyframe_new(time, value) == [time |-> time, value |-> value, interpolation |-> "Linear"]

Keyframe_with_interpolation(kf, interpolation) == [kf EXCEPT !.interpolation = interpolation]

InterpolationType_apply(interpolation, t) ==
    CASE interpolation = "Linear" -> t
      [] interpolation = "Step" -> IF t >= F32(1) THEN F32(1) ELSE F32(0)
      [] interpolation = "EaseIn" -> F32_mul(t, t)
      [] interpolation = "EaseOut" -> F32(1) - F32_mul(F32(1) - t, F32(1) - t)
      [] interpolation = "EaseInOut" ->
            IF 2 * t < F32(1)
            THEN F32_mul(F32_mul(F32(2), t), t)
            ELSE F32(1) - F32_div(F32_mul(F32(2) - F32_mul(F32(2), t),
                                          F32(2) - F32_mul(F32(2), t)), F32(2))

\* AnimationTrack::new for T = Vector3; value_type is the T of the track,
\* which the downcast in SceneNode::update_animations looks at
AnimationTrack_new(name) ==
    [name |-> name, keyframes |-> << >>, default_value |-> Vector3_new(0, 0, 0),
     value_type |-> "Vector3"]

\* one element put in its place in a sorted list, after the elements that
\* do not come later: slice::sort_by is stable
RECURSIVE InsertSorted(_, _)
InsertSorted(s, kf) ==
    IF s = << >> THEN <<kf>>
    ELSE IF kf.time < Head(s).time THEN <<kf>> \o s
    ELSE <<Head(s)>> \o InsertSorted(Tail(s), kf)

RECURSIVE SortByTime(_)
SortByTime(s) ==
    IF s = << >> THEN << >>
    ELSE InsertSorted(SortByTime(SubSeq(s, 1, Len(s) - 1)), s[Len(s)])

\* add_keyframe without the sort
AnimationTrack_add_keyframe_no_sort(track, keyframe) ==
    [track EXCEPT !.keyframes = Append(@, keyframe)]

AnimationTrack_add_keyframe(track, keyframe) ==
    [track EXCEPT !.keyframes = SortByTime(Append(@, keyframe))]

\* a search that stays at the segment it starts with
find_segment_no_scan(keyframes, time, i) == i

\* a search that stops before a keyframe at the sampled time
RECURSIVE find_segment_strict(_, _, _)
find_segment_strict(keyframes, time, i) ==
    IF i < Len(keyframes) /\ keyframes[i + 1].time < time
    THEN find_segment_strict(keyframes, time, i + 1)
    ELSE i

\* the loop "while i < len - 1 && keyframes[i + 1].time <= time", with i
\* counted from 1
RECURSIVE find_segment(_, _, _)
find_segment(keyframes, time, i) ==
    IF i < Len(keyframes) /\ keyframes[i + 1].time <= time
    THEN find_segment(keyframes, time, i + 1)
    ELSE i

\* what a call that indexes past the end of keyframes yields
IndexPanic == <<"Panic">>

\* a sample without the check against the last keyframe
AnimationTrack_sample_no_last_check(track, time) ==
    LET kfs == track.keyframes
    IN  IF kfs = << >> THEN track.default_value
        ELSE IF time <= kfs[1].time THEN kfs[1].value
        ELSE LET i == find_segment(kfs, time, 1)
             IN  IF i + 1 > Len(kfs) THEN IndexPanic
                 ELSE LET kf0 == kfs[i]
                          kf1 == kfs[i + 1]
                          duration == TimeValue_sub(kf1.time, kf0.time)
                      IN  IF duration <= F32(0) THEN kf0.value
                          ELSE LET t_raw == F32_div(TimeValue_sub(time, kf0.time), duration)
                                   t == InterpolationType_apply(kf0.interpolation, t_raw)
                               IN  Vector3_lerp(kf0.value, kf1.value, t)

\* AnimationTrack::sample; indexing past the end panics
AnimationTrack_sample(track, time) ==
    LET kfs == track.keyframes
    IN  IF kfs = << >> THEN track.default_value
        ELSE IF time <= kfs[1].time THEN kfs[1].value
        ELSE IF time >= kfs[Len(kfs)].time THEN kfs[Len(kfs)].value
        ELSE LET i == find_segment(kfs, time, 1)
             IN  IF i + 1 > Len(kfs) THEN IndexPanic
                 ELSE LET kf0 == kfs[i]
                          kf1 == kfs[i + 1]
                          duration == TimeValue_sub(kf1.time, kf0.time)
                      IN  IF duration <= F32(0) THEN kf0.value
                          ELSE LET t_raw == F32_div(TimeValue_sub(time, kf0.time), duration)
                                   t == InterpolationType_apply(kf0.interpolation, t_raw)
                               IN  Vector3_lerp(kf0.value, kf1.value, t)

\* the divisor of "(time - kf0.time).seconds() / duration" in sample, None
\* when the call returns without dividing
sample_divisor(track, time) ==
    LET kfs == track.keyframes
    IN  IF kfs = << >> THEN None
        ELSE IF time <= kfs[1].time THEN None
        ELSE IF time >= kfs[Len(kfs)].time THEN None
        ELSE LET i == find_segment(kfs, time, 1)
             IN  IF i + 1 > Len(kfs) THEN None
                 ELSE LET duration == TimeValue_sub(kfs[i + 1].time, kfs[i].time)
                      IN  IF duration <= F32(0) THEN None ELSE Some(duration)

\* a duration that takes the last keyframe's time for the span
AnimationTrack_duration_last_time(track) ==
    IF track.keyframes = << >> THEN TimeValue_new(F32(0))
    ELSE track.keyframes[Len(track.keyframes)].time

AnimationTrack_duration(track) ==
    IF track.keyframes = << >> THEN TimeValue_new(F32(0))
    ELSE TimeValue_sub(track.keyframes[Len(track.keyframes)].time, track.keyframes[1].time)

AnimationClip_new == [tracks |-> << >>, loop_animation |-> FALSE]

AnimationClip_add_track(clip, track) == [clip EXCEPT !.tracks = Append(@, track)]

RECURSIVE MaxDuration(_)
MaxDuration(tracks) ==
    IF Len(tracks) = 1 THEN AnimationTrack_duration(tracks[1])
    ELSE LET m == MaxDuration(Tail(tracks))
             d == AnimationTrack_duration(Head(tracks))
         IN  IF m >= d THEN m ELSE d

AnimationClip_duration(clip) ==
    IF clip.tracks = << >> THEN TimeValue_new(F32(0)) ELSE MaxDuration(clip.tracks)

\* AnimationClip::sample: sample_to_sample stores nothing
AnimationClip_sample(clip, time) == [values |-> << >>]

\* effects::fade_in (src/animation/effects.rs)
fade_in(duration) ==
    LET track0 == AnimationTrack_new("opacity")
        track1 == AnimationTrack_add_keyframe(track0,
                      Keyframe_new(TimeValue_new(F32(0)), Vector3_new(0, 0, 0)))
        track2 == AnimationTrack_add_keyframe(track1,
                      Keyframe_new(TimeValue_new(duration), Vector3_new(1, 0, 0)))
    IN  [AnimationClip_add_track(AnimationClip_new, track2) EXCEPT !.loop_animation = FALSE]

\* a create that leaves the scale track out
create_opacity_only(duration) == fade_in(duration)

\* effects::create: an opacity track and a scale track
create(duration) ==
    LET opacity_track0 == AnimationTrack_new("opacity")
        opacity_track1 == AnimationTrack_add_keyframe(opacity_track0,
                              Keyframe_new(TimeValue_new(F32(0)), Vector3_new(0, 0, 0)))
        opacity_track == AnimationTrack_add_keyframe(opacity_track1,
                             Keyframe_new(TimeValue_new(duration), Vector3_new(1, 0, 0)))
        scale_track0 == AnimationTrack_new("scale")
        scale_track1 == AnimationTrack_add_keyframe(scale_track0,
                            Keyframe_new(TimeValue_new(F32(0)), Vector3_new(0, 0, 0)))
        scale_track == AnimationTrack_add_keyframe(scale_track1,
                           Keyframe_new(TimeValue_new(duration), Vector3_new(1, 1, 1)))
        clip1 == AnimationClip_add_track(AnimationClip_new, opacity_track)
        clip2 == AnimationClip_add_track(clip1, scale_track)
    IN  [clip2 EXCEPT !.loop_animation = FALSE]

---------------------------------------------------------------------------
\* AnimationInstance

AnimationInstance_new(clip, start_time) ==
    [clip |-> clip, start_time |-> start_time, is_playing |-> TRUE,
     current_time |-> TimeValue_new(F32(0))]

AnimationInstance_update_no_clamp(inst, current_time) ==
    IF ~inst.is_playing THEN [inst |-> inst, result |-> None]
    ELSE LET local_time0 == TimeValue_sub(current_time, inst.start_time)
             duration == AnimationClip_duration(inst.clip)
             looped == duration > TimeValue_new(F32(0)) /\ inst.clip.loop_animation
             finished == /\ duration > TimeValue_new(F32(0))
                         /\ ~inst.clip.loop_animation
                         /\ local_time0 >= duration
             local_time == IF looped
                           THEN TimeValue_new(TimeValue_rem(local_time0, duration))
                           ELSE local_time0
         IN  [inst |-> [inst EXCEPT !.is_playing = ~finished, !.current_time = local_time],
              result |-> Some(AnimationClip_sample(inst.clip, local_time))]

AnimationInstance_update_loop_ends(inst, current_time) ==
    IF ~inst.is_playing THEN [inst |-> inst, result |-> None]
    ELSE LET local_time0 == TimeValue_sub(current_time, inst.start_time)
             duration == AnimationClip_duration(inst.clip)
             finished == duration > TimeValue_new(F32(0)) /\ local_time0 >= duration
             local_time == IF finished THEN duration ELSE local_time0
         IN  [inst |-> [inst EXCEPT !.is_playing = ~finished, !.current_time = local_time],
              result |-> Some(AnimationClip_sample(inst.clip, local_time))]

AnimationInstance_update_always(inst, current_time) ==
    LET local_time0 == TimeValue_sub(current_time, inst.start_time)
        duration == AnimationClip_duration(inst.clip)
        looped == duration > TimeValue_new(F32(0)) /\ inst.clip.loop_animation
        finished == /\ duration > TimeValue_new(F32(0))
                    /\ ~inst.clip.loop_animation
                    /\ local_time0 >= duration
        local_time == IF looped
                      THEN TimeValue_new(TimeValue_rem(local_time0, duration))
                      ELSE IF finished THEN duration ELSE local_time0
    IN  [inst |-> [inst EXCEPT !.is_playing = ~finished, !.current_time = local_time],
         result |-> Some(AnimationClip_sample(inst.clip, local_time))]

\* AnimationInstance::update: the instance after the call and the value
\* returned
AnimationInstance_update(inst, current_time) ==
    IF ~inst.is_playing THEN [inst |-> inst, result |-> None]
    ELSE LET local_time0 == TimeValue_sub(current_time, inst.start_time)
             duration == AnimationClip_duration(inst.clip)
             looped == duration > TimeValue_new(F32(0)) /\ inst.clip.loop_animation
             finished == /\ duration > TimeValue_new(F32(0))
                         /\ ~inst.clip.loop_animation
                         /\ local_time0 >= duration
             local_time == IF looped
                           THEN TimeValue_new(TimeValue_rem(local_time0, duration))
                           ELSE IF finished THEN duration ELSE local_time0
         IN  [inst |-> [inst EXCEPT !.is_playing = IF finished THEN FALSE ELSE @,
                                    !.current_time = local_time],
              result |-> Some(AnimationClip_sample(inst.clip, local_time))]

AnimationInstance_play(inst) == [inst EXCEPT !.is_playing = TRUE]

AnimationInstance_pause(inst) == [inst EXCEPT !.is_playing = FALSE]

AnimationInstance_stop(inst) ==
    [inst EXCEPT !.is_playing = FALSE, !.current_time = TimeValue_new(F32(0))]

---------------------------------------------------------------------------
\* SceneNode: animations

SceneNode_add_animation(node, animation) ==
    [node EXCEPT !.animations = Append(@, animation)]

\* a time step without the "duration > 0" test
advance_animation_no_guard(anim, delta_time) ==
    LET local_time == anim.current_time
        duration == AnimationClip_duration(anim.clip)
        new_time == TimeValue_add(local_time, delta_time)
    IN  IF anim.clip.loop_animation
        THEN [anim EXCEPT !.current_time =
                              TimeValue_new(TimeValue_rem(new_time, duration))]
        ELSE IF new_time >= duration
        THEN [anim EXCEPT !.is_playing = FALSE, !.current_time = duration]
        ELSE [anim EXCEPT !.current_time = new_time]

\* the time step of SceneNode::update_animations for one playing instance
advance_animation(anim, delta_time) ==
    LET local_time == anim.current_time
        duration == AnimationClip_duration(anim.clip)
        new_time == TimeValue_add(local_time, delta_time)
    IN  IF duration > TimeValue_new(F32(0))
        THEN IF anim.clip.loop_animation
             THEN [anim EXCEPT !.current_time =
                                   TimeValue_new(TimeValue_rem(new_time, duration))]
             ELSE IF new_time >= duration
             THEN [anim EXCEPT !.is_playing = FALSE, !.current_time = duration]
             ELSE [anim EXCEPT !.current_time = new_time]
        ELSE [anim EXCEPT !.current_time = new_time]

\* a match whose rotation arm stores x and y of the sample as well
bind_sample_whole_rotation(node, name, sample) ==
    CASE name = "position" ->
            [node |-> [node EXCEPT !.local_transform.position = sample],
             transform_changed |-> TRUE]
      [] name = "rotation" ->
            [node |-> [node EXCEPT !.local_transform.rotation =
                                       <<sample[1], sample[2], sample[3], @[4]>>],
             transform_changed |-> TRUE]
      [] name = "scale" ->
            [node |-> [node EXCEPT !.local_transform.scale = sample],
             transform_changed |-> TRUE]
      [] name = "opacity" ->
            [node |-> [node EXCEPT !.opacity = clamp(sample[1], F32(0), F32(1))],
             transform_changed |-> FALSE]
      [] OTHER -> [node |-> node, transform_changed |-> FALSE]

\* a match that reports the opacity arm as a transform change too
bind_sample_opacity_flags(node, name, sample) ==
    CASE name = "position" ->
            [node |-> [node EXCEPT !.local_transform.position = sample],
             transform_changed |-> TRUE]
      [] name = "rotation" ->
            [node |-> [node EXCEPT !.local_transform.rotation[3] = sample[3]],
             transform_changed |-> TRUE]
      [] name = "scale" ->
            [node |-> [node EXCEPT !.local_transform.scale = sample],
             transform_changed |-> TRUE]
      [] name = "opacity" ->
            [node |-> [node EXCEPT !.opacity = clamp(sample[1], F32(0), F32(1))],
             transform_changed |-> TRUE]
      [] OTHER -> [node |-> node, transform_changed |-> FALSE]

\* the match on track.name
bind_sample(node, name, sample) ==
    CASE name = "position" ->
            [node |-> [node EXCEPT !.local_transform.position = sample],
             transform_changed |-> TRUE]
      [] name = "rotation" ->
            [node |-> [node EXCEPT !.local_transform.rotation[3] = sample[3]],
             transform_changed |-> TRUE]
      [] name = "scale" ->
            [node |-> [node EXCEPT !.local_transform.scale = sample],
             transform_changed |-> TRUE]
      [] name = "opacity" ->
            [node |-> [node EXCEPT !.opacity = clamp(sample[1], F32(0), F32(1))],
             transform_changed |-> FALSE]
      [] OTHER -> [node |-> node, transform_changed |-> FALSE]

\* the loop over anim.clip.tracks; a track that is not an
\* AnimationTrack<Vector3> fails the downcast and is skipped
RECURSIVE sample_tracks(_, _, _, _)
sample_tracks(node, tracks, time, transform_changed) ==
    IF tracks = << >> THEN [node |-> node, transform_changed |-> transform_changed]
    ELSE LET track == Head(tracks)
             r == IF track.value_type = "Vector3"
                  THEN bind_sample(node, track.name, AnimationTrack_sample(track, time))
                  ELSE [node |-> node, transform_changed |-> FALSE]
         IN  sample_tracks(r.node, Tail(tracks), time,
                           transform_changed \/ r.transform_changed)

\* a loop that visits the instances from the last to the first
RECURSIVE update_animations_loop_reverse(_, _, _, _)
update_animations_loop_reverse(node, i, delta_time, transform_changed) ==
    IF i > Len(node.animations)
    THEN [node |-> node, transform_changed |-> transform_changed]
    ELSE LET j == Len(node.animations) + 1 - i
         IN  IF node.animations[j].is_playing
             THEN LET anim == advance_animation(node.animations[j], delta_time)
                      r == sample_tracks([node EXCEPT !.animations[j] = anim],
                                         anim.clip.tracks, anim.current_time,
                                         transform_changed)
                  IN  update_animations_loop_reverse(r.node, i + 1, delta_time,
                                                     r.transform_changed)
             ELSE update_animations_loop_reverse(node, i + 1, delta_time,
                                                 transform_changed)

\* the loop over self.animations, from the i-th instance on
RECURSIVE update_animations_loop(_, _, _, _)
update_animations_loop(node, i, delta_time, transform_changed) ==
    IF i > Len(node.animations)
    THEN [node |-> node, transform_changed |-> transform_changed]
    ELSE IF node.animations[i].is_playing
    THEN LET anim == advance_animation(node.animations[i], delta_time)
             r == sample_tracks([node EXCEPT !.animations[i] = anim],
                                anim.clip.tracks, anim.current_time, transform_changed)
         IN  update_animations_loop(r.node, i + 1, delta_time, r.transform_changed)
    ELSE update_animations_loop(node, i + 1, delta_time, transform_changed)

\* SceneNode::update_animations: the node after the call, the value
\* returned, and (advanced) the animation list as the loop left it, before
\* retain
SceneNode_update_animations(node, delta_time) ==
    LET r == update_animations_loop(node, 1, delta_time, FALSE)
    IN  [node |-> [r.node EXCEPT !.animations =
                       SelectSeq(@, LAMBDA anim : anim.is_playing \/ anim.clip.loop_animation)],
         result |-> r.transform_changed,
         advanced |-> r.node.animations]

\* a visit in which the node's result replaces the flag
visit_node_last_flag(g, id, flag, advanced, r) ==
    [g |-> [g EXCEPT !.nodes[id] = r.node], update_transforms |-> r.result,
     advanced |-> Insert(advanced, id, r.advanced)]

\* "if node.update_animations(delta_time) { update_transforms = true; }"
\* for the node id, r being what its update_animations gave
visit_node(g, id, flag, advanced, r) ==
    [g |-> [g EXCEPT !.nodes[id] = r.node], update_transforms |-> flag \/ r.result,
     advanced |-> Insert(advanced, id, r.advanced)]

\* the loop of SceneGraph::update_animations over nodes.values_mut(), in
\* the order the map yields them; s is [g, update_transforms, advanced],
\* where advanced collects, per node, the list SceneNode::update_animations
\* had before its retain
RECURSIVE update_nodes(_, _, _)
update_nodes(s, order, delta_time) ==
    IF order = << >> THEN s
    ELSE update_nodes(visit_node(s.g, Head(order), s.update_transforms, s.advanced,
                                 SceneNode_update_animations(s.g.nodes[Head(order)],
                                                             delta_time)),
                      Tail(order), delta_time)

\* an end of update_animations that propagates transforms on every call
propagate_always(r) == [g |-> update_transforms(r.g), advanced |-> r.advanced]

\* "if update_transforms { self.update_transforms(); }", r being what the
\* loop left
propagate_if_flagged(r) ==
    [g |-> IF r.update_transforms THEN update_transforms(r.g) ELSE r.g,
     advanced |-> r.advanced]

SceneGraph_update_animations(g, order, delta_time) ==
    propagate_if_flagged(update_nodes([g |-> g, update_transforms |-> FALSE,
                                       advanced |-> << >>], order, delta_time))

---------------------------------------------------------------------------
\* Inputs

\* ids a caller may pass: 0 is reserved and never allocated, the others may
\* or may not be present
IdArgs == 0..MaxId

T1 == [position |-> Vector3_new(10, 0, 0), rotation |-> Quaternion_identity,
       scale |-> Vector3_new(2, 2, 2)]

T2 == [position |-> Vector3_new(5, -3, 0),
       rotation |-> <<F32(0), F32(0), F32(1), F32(0)>>,
       scale |-> Vector3_new(1, 3, 1)]

---------------------------------------------------------------------------
\* Actions

SetGraph(g) ==
    /\ nodes' = g.nodes
    /\ root_nodes' = g.root_nodes
    /\ next_id' = g.next_id

Init ==
    /\ nodes = SceneGraph_new.nodes
    /\ root_nodes = SceneGraph_new.root_nodes
    /\ next_id = SceneGraph_new.next_id
    /\ ret = [op |-> "new", args |-> << >>, result |-> "Ok", old |-> None]

CreateNode ==
    /\ next_id <= MaxId
    /\ LET r == create_node(G)
       IN  /\ SetGraph(r.g)
           /\ ret' = [op |-> "create_node", args |-> << >>, result |-> r.result,
                      old |-> None]

CreateNodeWithTransform(transform) ==
    /\ next_id <= MaxId
    /\ LET r == create_node_with_transform(G, transform)
       IN  /\ SetGraph(r.g)
           /\ ret' = [op |-> "create_node_with_transform", args |-> << >>,
                      result |-> r.result, old |-> None]

Parent(child_id, parent_id) ==
    LET r == parent(G, child_id, parent_id)
    IN  /\ SetGraph(r.g)
        /\ ret' = [op |-> "parent", args |-> <<child_id, parent_id>>,
                   result |-> r.result,
                   old |-> IF HasNode(G, child_id) THEN nodes[child_id].parent ELSE None]

RemoveNode(node_id) ==
    LET r == remove_node(G, node_id)
    IN  /\ SetGraph(r.g)
        /\ ret' = [op |-> "remove_node", args |-> <<node_id>>,
                   result |-> r.result, old |-> None]

Next ==
    \/ CreateNode
    \/ CreateNodeWithTransform(T1)
    \/ \E c \in IdArgs, p \in IdArgs : Parent(c, p)
    \/ \E n \in IdArgs : RemoveNode(n)

Spec == Init /\ [][Next]_vars

UpdateTransforms ==
    /\ SetGraph(update_transforms(G))
    /\ ret' = [op |-> "update_transforms", args |-> << >>, result |-> None, old |-> None]

GetVisibleRenderables ==
    /\ UNCHANGED <<nodes, root_nodes, next_id>>
    /\ ret' = [op |-> "get_visible_renderables", args |-> << >>,
               result |-> get_visible_renderables(G), old |-> None]

\* the builder calls return the builder; no value is recorded for them
Built == [op |-> "builder", args |-> << >>, result |-> None, old |-> None]

AddCircle ==
    /\ next_id <= MaxId
    /\ SetGraph(add_circle(G, F32(1), "RED").g)
    /\ ret' = Built

BuilderCreateWithTransform(transform) ==
    /\ next_id <= MaxId
    /\ SetGraph(create_node_with_transform(G, transform).g)
    /\ ret' = Built

BuilderOpacity(node_id, opacity) ==
    /\ SetGraph(builder_opacity(G, node_id, opacity))
    /\ ret' = Built

BuilderVisible(node_id, visible) ==
    /\ SetGraph(builder_visible(G, node_id, visible))
    /\ ret' = Built

BuilderParentTo(node_id, parent_id) ==
    /\ SetGraph(builder_parent_to(G, node_id, parent_id))
    /\ ret' = Built

\* opacities a caller passes: below, inside and above [0, 1]
OpacityArgs == {F32(-1), F32(0), F32(1) \div 2, F32(1), F32(2)}

NextTransform ==
    \/ CreateNode
    \/ CreateNodeWithTransform(T1)
    \/ CreateNodeWithTransform(T2)
    \/ \E c \in IdArgs, p \in IdArgs : Parent(c, p)
    \/ \E n \in IdArgs : RemoveNode(n)
    \/ UpdateTransforms

SpecTransform == Init /\ [][NextTransform]_vars

NextRender ==
    \/ AddCircle
    \/ BuilderCreateWithTransform(T1)
    \/ \E n \in DOMAIN nodes, o \in OpacityArgs : BuilderOpacity(n, o)
    \/ \E n \in DOMAIN nodes, v \in BOOLEAN : BuilderVisible(n, v)
    \/ \E c \in DOMAIN nodes, p \in DOMAIN nodes : BuilderParentTo(c, p)
    \/ UpdateTransforms
    \/ GetVisibleRenderables

SpecRender == Init /\ [][NextRender]_vars

---------------------------------------------------------------------------
\* Animation: inputs and actions (specification SpecAnim)

\* nodes that carry animations, instances per node, and the seconds an
\* instance's clock may reach (a clip of duration 0 never stops counting)
MaxAnimNodes == 1

MaxAnims == 2

MaxSeconds == 2

\* a one-second fade: non-looping, duration 1
ClipFade == fade_in(F32(1))

\* a looping pulse of the scale, as main.rs builds it: duration 2
ClipPulse ==
    LET track0 == AnimationTrack_new("scale")
        track1 == AnimationTrack_add_keyframe(track0,
                      Keyframe_new(TimeValue_new(F32(0)), Vector3_new(1, 1, 1)))
        track2 == AnimationTrack_add_keyframe(track1,
                      Keyframe_new(TimeValue_new(F32(1)), Vector3_new(2, 2, 2)))
        track3 == AnimationTrack_add_keyframe(track2,
                      Keyframe_new(TimeValue_new(F32(2)), Vector3_new(1, 1, 1)))
    IN  [AnimationClip_add_track(AnimationClip_new, track3) EXCEPT !.loop_animation = TRUE]

\* a single keyframe: duration 0
ClipHold ==
    LET track0 == AnimationTrack_new("position")
        track1 == AnimationTrack_add_keyframe(track0,
                      Keyframe_new(TimeValue_new(F32(0)), Vector3_new(3, 0, 0)))
    IN  AnimationClip_add_track(AnimationClip_new, track1)

Clips == {ClipFade, ClipPulse, ClipHold}

StartTimes == {TimeValue_new(F32(0)), TimeValue_new(F32(1))}

Deltas == {TimeValue_new(F32(1) \div 2), TimeValue_new(F32(1))}

GlobalTimes ==
    {TimeValue_new(F32(1) \div 2), TimeValue_new(F32(2)), TimeValue_new(F32(5) \div 2)}

\* the orders in which a HashMap may yield the ids of S
Orders(S) ==
    {s \in [1..Cardinality(S) -> S] : \A i, j \in 1..Cardinality(S) : i # j => s[i] # s[j]}

\* the animation lists of all nodes
AnimationLists(g) == [n \in DOMAIN g.nodes |-> g.nodes[n].animations]

\* no clock is past MaxSeconds after a frame step of delta_time
WithinMaxSeconds(delta_time) ==
    \A n \in DOMAIN nodes : \A i \in 1..Len(nodes[n].animations) :
        nodes[n].animations[i].is_playing
            => advance_animation(nodes[n].animations[i], delta_time).current_time
                   <= F32(MaxSeconds)

AnimCreateNode ==
    /\ next_id <= MaxAnimNodes
    /\ CreateNode

\* The calls on one instance record, besides their result, what the caller
\* has seen of the clock: play() keeps in paused_at the global time of an
\* update that found the instance not playing right before it, and the
\* update() that follows play() keeps it in resumed_at.

\* get_node_mut(node_id).unwrap().add_animation(AnimationInstance::new(..))
AddAnimation(node_id, clip, start_time) ==
    /\ node_id \in DOMAIN nodes
    /\ Len(nodes[node_id].animations) < MaxAnims
    /\ nodes' = [nodes EXCEPT ![node_id] =
                    SceneNode_add_animation(@, AnimationInstance_new(clip, start_time))]
    /\ UNCHANGED <<root_nodes, next_id>>
    /\ ret' = [op |-> "add_animation", args |-> <<node_id>>, result |-> None, old |-> None]

NodeUpdateAnimations(node_id, delta_time) ==
    /\ node_id \in DOMAIN nodes
    /\ WithinMaxSeconds(delta_time)
    /\ LET r == SceneNode_update_animations(nodes[node_id], delta_time)
       IN  /\ nodes' = [nodes EXCEPT ![node_id] = r.node]
           /\ ret' = [op |-> "node_update_animations", args |-> <<delta_time>>,
                      result |-> r.result,
                      old |-> Insert(<< >>, node_id, nodes[node_id].animations),
                      advanced |-> Insert(<< >>, node_id, r.advanced)]
    /\ UNCHANGED <<root_nodes, next_id>>

UpdateAnimations(delta_time) ==
    /\ WithinMaxSeconds(delta_time)
    /\ \E order \in Orders(DOMAIN nodes) :
          LET r == SceneGraph_update_animations(G, order, delta_time)
          IN  /\ SetGraph(r.g)
              /\ ret' = [op |-> "update_animations", args |-> <<delta_time>>,
                         result |-> None, old |-> AnimationLists(G),
                         advanced |-> r.advanced, before |-> G, order |-> order,
                         reported |-> [n \in DOMAIN nodes |->
                             SceneNode_update_animations(nodes[n], delta_time).result]]

InstanceUpdate(node_id, i, current_time) ==
    /\ node_id \in DOMAIN nodes
    /\ i \in 1..Len(nodes[node_id].animations)
    /\ LET r == AnimationInstance_update(nodes[node_id].animations[i], current_time)
       IN  /\ nodes' = [nodes EXCEPT ![node_id].animations[i] = r.inst]
           /\ ret' = [op |-> "instance_update", args |-> <<node_id, i, current_time>>,
                      result |-> r.result, old |-> nodes[node_id].animations[i],
                      resumed_at |-> IF ret.op = "play" /\ ret.args = <<node_id, i>>
                                     THEN ret.paused_at ELSE None]
    /\ UNCHANGED <<root_nodes, next_id>>

InstancePlay(node_id, i) ==
    /\ node_id \in DOMAIN nodes
    /\ i \in 1..Len(nodes[node_id].animations)
    /\ nodes' = [nodes EXCEPT ![node_id].animations[i] = AnimationInstance_play(@)]
    /\ ret' = [op |-> "play", args |-> <<node_id, i>>, result |-> None,
               old |-> nodes[node_id].animations[i],
               paused_at |-> IF /\ ret.op = "instance_update"
                                /\ ret.args[1] = node_id /\ ret.args[2] = i
                                /\ ret.result = None
                             THEN Some(ret.args[3]) ELSE None]
    /\ UNCHANGED <<root_nodes, next_id>>

InstancePause(node_id, i) ==
    /\ node_id \in DOMAIN nodes
    /\ i \in 1..Len(nodes[node_id].animations)
    /\ nodes' = [nodes EXCEPT ![node_id].animations[i] = AnimationInstance_pause(@)]
    /\ ret' = [op |-> "pause", args |-> <<node_id, i>>, result |-> None, old |-> None]
    /\ UNCHANGED <<root_nodes, next_id>>

InstanceStop(node_id, i) ==
    /\ node_id \in DOMAIN nodes
    /\ i \in 1..Len(nodes[node_id].animations)
    /\ nodes' = [nodes EXCEPT ![node_id].animations[i] = AnimationInstance_stop(@)]
    /\ ret' = [op |-> "stop", args |-> <<node_id, i>>, result |-> None, old |-> None]
    /\ UNCHANGED <<root_nodes, next_id>>

NextAnim ==
    \/ AnimCreateNode
    \/ \E n \in DOMAIN nodes, clip \in Clips, s \in StartTimes : AddAnimation(n, clip, s)
    \/ \E n \in DOMAIN nodes, d \in Deltas : NodeUpdateAnimations(n, d)
    \/ \E n \in DOMAIN nodes, i \in 1..MaxAnims, t \in GlobalTimes : InstanceUpdate(n, i, t)
    \/ \E n \in DOMAIN nodes, i \in 1..MaxAnims : InstancePlay(n, i)
    \/ \E n \in DOMAIN nodes, i \in 1..MaxAnims : InstancePause(n, i)
    \/ \E n \in DOMAIN nodes, i \in 1..MaxAnims : InstanceStop(n, i)

SpecAnim == Init /\ [][NextAnim]_vars

---------------------------------------------------------------------------
\* Track binding: inputs (specification SpecBind)

\* a looping rotation as main.rs builds it, with x and y set in the
\* keyframes to tell a write of z from a write of the whole rotation
ClipSpin ==
    LET track0 == AnimationTrack_new("rotation")
        track1 == AnimationTrack_add_keyframe(track0,
                      Keyframe_new(TimeValue_new(F32(0)), Vector3_new(1, 2, 0)))
        track2 == AnimationTrack_add_keyframe(track1,
                      Keyframe_new(TimeValue_new(F32(2)), Vector3_new(1, 2, 4)))
    IN  [AnimationClip_add_track(AnimationClip_new, track2) EXCEPT !.loop_animation = TRUE]

\* a track whose name update_animations does not know
ClipTint ==
    LET track0 == AnimationTrack_new("tint")
        track1 == AnimationTrack_add_keyframe(track0,
                      Keyframe_new(TimeValue_new(F32(0)), Vector3_new(1, 0, 0)))
        track2 == AnimationTrack_add_keyframe(track1,
                      Keyframe_new(TimeValue_new(F32(2)), Vector3_new(0, 1, 0)))
    IN  [AnimationClip_add_track(AnimationClip_new, track2) EXCEPT !.loop_animation = TRUE]

\* an opacity track whose keyframes lie outside [0, 1]
ClipFlash ==
    LET track0 == AnimationTrack_new("opacity")
        track1 == AnimationTrack_add_keyframe(track0,
                      Keyframe_new(TimeValue_new(F32(0)), Vector3_new(-1, 0, 0)))
        track2 == AnimationTrack_add_keyframe(track1,
                      Keyframe_new(TimeValue_new(F32(2)), Vector3_new(3, 0, 0)))
    IN  [AnimationClip_add_track(AnimationClip_new, track2) EXCEPT !.loop_animation = TRUE]

\* effects::create over one second: opacity and scale
ClipCreate == create(F32(1))

BindClips == {ClipSpin, ClipTint, ClipFlash, ClipCreate, ClipHold}

AnimCreateNodeWithTransform(transform) ==
    /\ next_id <= MaxAnimNodes
    /\ CreateNodeWithTransform(transform)

NextBind ==
    \/ AnimCreateNode
    \/ AnimCreateNodeWithTransform(T2)
    \/ \E n \in DOMAIN nodes, clip \in BindClips :
          AddAnimation(n, clip, TimeValue_new(F32(0)))
    \/ \E n \in DOMAIN nodes, d \in Deltas : NodeUpdateAnimations(n, d)
    \/ \E n \in DOMAIN nodes, o \in OpacityArgs : BuilderOpacity(n, o)

SpecBind == Init /\ [][NextBind]_vars

---------------------------------------------------------------------------
\* Tracks: inputs and actions (specification SpecTrack).  The track a caller
\* builds is a local of the caller; it is kept in ret.track, with the
\* keyframes passed to add_keyframe so far, in call order, in ret.added, and
\* the clip the caller builds in ret.clip.

MaxKeyframes == 4

KeyframeTimes == {TimeValue_new(F32(0)), TimeValue_new(F32(1)), TimeValue_new(F32(2))}

KeyframeValues == {Vector3_new(0, 0, 0), Vector3_new(10, 0, 0)}

Interpolations == {"Linear", "Step"}

SampleTimes ==
    {TimeValue_new(F32(0)), TimeValue_new(F32(1) \div 2), TimeValue_new(F32(1)),
     TimeValue_new(F32(3) \div 2), TimeValue_new(F32(2)), TimeValue_new(F32(3))}

InitTrack ==
    /\ nodes = SceneGraph_new.nodes
    /\ root_nodes = SceneGraph_new.root_nodes
    /\ next_id = SceneGraph_new.next_id
    /\ ret = [op |-> "track_new", args |-> << >>, result |-> None, old |-> None,
              track |-> AnimationTrack_new("position"), added |-> << >>,
              clip |-> AnimationClip_new]

TrackAddKeyframe(time, value, interpolation) ==
    /\ Len(ret.track.keyframes) < MaxKeyframes
    /\ LET keyframe == Keyframe_with_interpolation(Keyframe_new(time, value), interpolation)
       IN  ret' = [op |-> "add_keyframe", args |-> <<keyframe>>, result |-> None,
                   old |-> ret.track,
                   track |-> AnimationTrack_add_keyframe(ret.track, keyframe),
                   added |-> Append(ret.added, keyframe), clip |-> ret.clip]
    /\ UNCHANGED <<nodes, root_nodes, next_id>>

TrackSample(time) ==
    /\ ret' = [op |-> "sample", args |-> <<time>>,
               result |-> AnimationTrack_sample(ret.track, time),
               old |-> ret.track, track |-> ret.track, added |-> ret.added,
               clip |-> ret.clip, divisor |-> sample_divisor(ret.track, time)]
    /\ UNCHANGED <<nodes, root_nodes, next_id>>

NextTrack ==
    \/ \E t \in KeyframeTimes, v \in KeyframeValues, e \in Interpolations :
          TrackAddKeyframe(t, v, e)
    \/ \E t \in SampleTimes : TrackSample(t)

SpecTrack == InitTrack /\ [][NextTrack]_vars

---------------------------------------------------------------------------
\* Clips: inputs and actions (specification SpecClip)

MaxTracks == 2

\* keyframe times of the tracks of a clip: spans of 0, 2, 3 and 5 seconds
ClipKeyframeTimes == {TimeValue_new(F32(0)), TimeValue_new(F32(2)), TimeValue_new(F32(5))}

\* clip.add_track(track) moves the track into the clip; the caller goes on
\* with a new track
ClipAddTrack ==
    /\ Len(ret.clip.tracks) < MaxTracks
    /\ ret' = [op |-> "add_track", args |-> <<ret.track>>, result |-> None,
               old |-> None, track |-> AnimationTrack_new("scale"), added |-> << >>,
               clip |-> AnimationClip_add_track(ret.clip, ret.track)]
    /\ UNCHANGED <<nodes, root_nodes, next_id>>

ClipDuration ==
    /\ ret' = [op |-> "clip_duration", args |-> << >>,
               result |-> AnimationClip_duration(ret.clip),
               old |-> None, track |-> ret.track, added |-> ret.added, clip |-> ret.clip]
    /\ UNCHANGED <<nodes, root_nodes, next_id>>

NextClip ==
    \/ \E t \in ClipKeyframeTimes : TrackAddKeyframe(t, Vector3_new(0, 0, 0), "Linear")
    \/ ClipAddTrack
    \/ ClipDuration

SpecClip == InitTrack /\ [][NextClip]_vars

---------------------------------------------------------------------------
\* Node ids: actions (specification SpecIds).  The hierarchy calls of Spec,
\* recording in ret.issued the ids the create calls have returned so far, in
\* call order.

InitIds ==
    /\ nodes = SceneGraph_new.nodes
    /\ root_nodes = SceneGraph_new.root_nodes
    /\ next_id = SceneGraph_new.next_id
    /\ ret = [op |-> "new", args |-> << >>, result |-> None, old |-> None, issued |-> << >>]

IdsCreateNode ==
    /\ next_id <= MaxId
    /\ LET r == create_node(G)
       IN  /\ SetGraph(r.g)
           /\ ret' = [op |-> "create_node", args |-> << >>, result |-> r.result,
                      old |-> None, issued |-> Append(ret.issued, r.result)]

IdsCreateNodeWithTransform(transform) ==
    /\ next_id <= MaxId
    /\ LET r == create_node_with_transform(G, transform)
       IN  /\ SetGraph(r.g)
           /\ ret' = [op |-> "create_node_with_transform", args |-> << >>,
                      result |-> r.result, old |-> None,
                      issued |-> Append(ret.issued, r.result)]

IdsParent(child_id, parent_id) ==
    LET r == parent(G, child_id, parent_id)
    IN  /\ SetGraph(r.g)
        /\ ret' = [op |-> "parent", args |-> <<child_id, parent_id>>,
                   result |-> r.result, old |-> None, issued |-> ret.issued]

IdsRemoveNode(node_id) ==
    LET r == remove_node(G, node_id)
    IN  /\ SetGraph(r.g)
        /\ ret' = [op |-> "remove_node", args |-> <<node_id>>,
                   result |-> r.result, old |-> None, issued |-> ret.issued]

NextIds ==
    \/ IdsCreateNode
    \/ IdsCreateNodeWithTransform(T1)
    \/ \E c \in IdArgs, p \in IdArgs : IdsParent(c, p)
    \/ \E n \in IdArgs : IdsRemoveNode(n)

SpecIds == InitIds /\ [][NextIds]_vars

---------------------------------------------------------------------------
\* Effects: inputs and actions (specification SpecEffects).  The clip the
\* caller holds is kept in ret.clip, with the duration it was made for in
\* ret.duration.

MaxDurationSteps == 12

\* durations passed to create: 0.125 s to MaxDurationSteps / 8 s, in steps
\* of 0.125 s
Durations == {(F32(1) \div 8) * k : k \in 1..MaxDurationSteps}

\* times at which the caller samples: 0 s to past the longest duration, in
\* steps of 1/16 s
EffectSampleTimes == {TimeValue_new(j) : j \in 0..((F32(1) \div 8) * MaxDurationSteps + 1)}

InitEffects ==
    /\ nodes = SceneGraph_new.nodes
    /\ root_nodes = SceneGraph_new.root_nodes
    /\ next_id = SceneGraph_new.next_id
    /\ ret = [op |-> "new", args |-> << >>, result |-> None,
              clip |-> AnimationClip_new, duration |-> F32(0)]

EffectsCreate(duration) ==
    /\ ret' = [op |-> "create", args |-> <<duration>>, result |-> create(duration),
               clip |-> create(duration), duration |-> duration]
    /\ UNCHANGED <<nodes, root_nodes, next_id>>

\* track.sample(time) for each track of the clip, in track order
EffectsSampleTracks(time) ==
    /\ ret.op # "new"
    /\ ret' = [op |-> "sample_tracks", args |-> <<time>>,
               result |-> [k \in 1..Len(ret.clip.tracks) |->
                              AnimationTrack_sample(ret.clip.tracks[k], time)],
               clip |-> ret.clip, duration |-> ret.duration]
    /\ UNCHANGED <<nodes, root_nodes, next_id>>

EffectsDuration ==
    /\ ret.op # "new"
    /\ ret' = [op |-> "clip_duration", args |-> << >>,
               result |-> AnimationClip_duration(ret.clip),
               clip |-> ret.clip, duration |-> ret.duration]
    /\ UNCHANGED <<nodes, root_nodes, next_id>>

NextEffects ==
    \/ \E d \in Durations : EffectsCreate(d)
    \/ \E t \in EffectSampleTimes : EffectsSampleTracks(t)
    \/ EffectsDuration

SpecEffects == InitEffects /\ [][NextEffects]_vars

---------------------------------------------------------------------------
\* TimeValue: inputs and actions (specification SpecTime).  The TimeValue
\* the caller holds is kept in ret.value; the other operand of a binary
\* operator is a TimeValue made by TimeValue::new.

MaxTimeSeconds == 3

\* f32 arguments of TimeValue::new: -2 s to MaxTimeSeconds s in steps of 0.5 s
TimeArgs == {(F32(1) \div 2) * k : k \in (-4)..(2 * MaxTimeSeconds)}

TimeOperands == {TimeValue_new(x) : x \in TimeArgs}

InitTime ==
    /\ nodes = SceneGraph_new.nodes
    /\ root_nodes = SceneGraph_new.root_nodes
    /\ next_id = SceneGraph_new.next_id
    /\ ret = [op |-> "new", args |-> <<F32(0)>>, value |-> TimeValue_new(F32(0)),
              old |-> TimeValue_new(F32(0))]

\* the values the model follows: |value| <= MaxTimeSeconds s
TimeInRange(value) == value <= F32(MaxTimeSeconds) /\ value >= -F32(MaxTimeSeconds)

TimeNew(x) ==
    /\ TimeInRange(TimeValue_new(x))
    /\ ret' = [op |-> "new", args |-> <<x>>, value |-> TimeValue_new(x),
               old |-> ret.value]
    /\ UNCHANGED <<nodes, root_nodes, next_id>>

TimeAdd(other) ==
    /\ TimeInRange(TimeValue_add(ret.value, other))
    /\ ret' = [op |-> "add", args |-> <<other>>, value |-> TimeValue_add(ret.value, other),
               old |-> ret.value]
    /\ UNCHANGED <<nodes, root_nodes, next_id>>

TimeSub(other) ==
    /\ TimeInRange(TimeValue_sub(ret.value, other))
    /\ ret' = [op |-> "sub", args |-> <<other>>, value |-> TimeValue_sub(ret.value, other),
               old |-> ret.value]
    /\ UNCHANGED <<nodes, root_nodes, next_id>>

TimeRem(other) ==
    /\ TimeInRange(TimeValue_rem(ret.value, other))
    /\ ret' = [op |-> "rem", args |-> <<other>>, value |-> TimeValue_rem(ret.value, other),
               old |-> ret.value]
    /\ UNCHANGED <<nodes, root_nodes, next_id>>

TimeAddAssign(other) ==
    /\ TimeInRange(TimeValue_add_assign(ret.value, other))
    /\ ret' = [op |-> "add_assign", args |-> <<other>>, value |-> TimeValue_add_assign(ret.value, other),
               old |-> ret.value]
    /\ UNCHANGED <<nodes, root_nodes, next_id>>

TimeSubAssign(other) ==
    /\ TimeInRange(TimeValue_sub_assign(ret.value, other))
    /\ ret' = [op |-> "sub_assign", args |-> <<other>>, value |-> TimeValue_sub_assign(ret.value, other),
               old |-> ret.value]
    /\ UNCHANGED <<nodes, root_nodes, next_id>>

NextTime ==
    \/ \E x \in TimeArgs : TimeNew(x)
    \/ \E other \in TimeOperands : TimeAdd(other)
    \/ \E other \in TimeOperands : TimeSub(other)
    \/ \E other \in TimeOperands : TimeRem(other)
    \/ \E other \in TimeOperands : TimeAddAssign(other)
    \/ \E other \in TimeOperands : TimeSubAssign(other)

SpecTime == InitTime /\ [][NextTime]_vars

---------------------------------------------------------------------------
\* Frames of a graph: inputs and actions (specification SpecFrame).  The
\* graph-level update_animations records the graph before the call in
\* ret.before, the order in which the map yielded the nodes in ret.order and
\* what each node's update_animations returned in ret.reported.

MaxFrameNodes == 2

MaxFrameAnims == 1

\* an opacity clip and a looping scale clip
FrameClips == {ClipFade, ClipPulse}

FrameDeltas == {TimeValue_new(F32(1) \div 2), TimeValue_new(F32(1))}

FrameCreateNode ==
    /\ next_id <= MaxFrameNodes
    /\ CreateNode

FrameCreateNodeWithTransform(transform) ==
    /\ next_id <= MaxFrameNodes
    /\ CreateNodeWithTransform(transform)

FrameAddAnimation(node_id, clip) ==
    /\ node_id \in DOMAIN nodes
    /\ Len(nodes[node_id].animations) < MaxFrameAnims
    /\ AddAnimation(node_id, clip, TimeValue_new(F32(0)))

NextFrame ==
    \/ FrameCreateNode
    \/ FrameCreateNodeWithTransform(T2)
    \/ \E c \in DOMAIN nodes, p \in DOMAIN nodes : Parent(c, p)
    \/ \E n \in DOMAIN nodes, clip \in FrameClips : FrameAddAnimation(n, clip)
    \/ \E n \in DOMAIN nodes : InstancePause(n, 1)
    \/ \E d \in FrameDeltas : UpdateAnimations(d)
    \/ UpdateTransforms

SpecFrame == Init /\ [][NextFrame]_vars

---------------------------------------------------------------------------
\* Clips of duration 0: inputs and actions (specification SpecHold).  Only
\* the two update calls act on the instances.

\* two keyframes at 1 s with different values: duration 0
ClipJump ==
    LET track0 == AnimationTrack_new("position")
        track1 == AnimationTrack_add_keyframe(track0,
                      Keyframe_new(TimeValue_new(F32(1)), Vector3_new(3, 0, 0)))
        track2 == AnimationTrack_add_keyframe(track1,
                      Keyframe_new(TimeValue_new(F32(1)), Vector3_new(7, 0, 0)))
    IN  AnimationClip_add_track(AnimationClip_new, track2)

\* a clip without tracks: duration 0
ClipEmpty == AnimationClip_new

HoldClips == {ClipHold, ClipJump, ClipEmpty, ClipFade}

NextHold ==
    \/ AnimCreateNode
    \/ \E n \in DOMAIN nodes, clip \in HoldClips, s \in StartTimes : AddAnimation(n, clip, s)
    \/ \E n \in DOMAIN nodes, d \in Deltas : NodeUpdateAnimations(n, d)
    \/ \E n \in DOMAIN nodes, i \in 1..MaxAnims, t \in GlobalTimes : InstanceUpdate(n, i, t)

SpecHold == Init /\ [][NextHold]_vars

---------------------------------------------------------------------------
\* Start times: actions (specification SpecStart).  Instances are attached
\* before the first frame, as the builder calls do; ret.elapsed is the sum
\* of the deltas of the update_animations calls so far.

InitStart ==
    /\ nodes = SceneGraph_new.nodes
    /\ root_nodes = SceneGraph_new.root_nodes
    /\ next_id = SceneGraph_new.next_id
    /\ ret = [op |-> "new", args |-> << >>, result |-> None, elapsed |-> F32(0)]

StartCreateNode ==
    /\ next_id <= MaxAnimNodes
    /\ LET r == create_node(G)
       IN  /\ SetGraph(r.g)
           /\ ret' = [op |-> "create_node", args |-> << >>, result |-> r.result,
                      elapsed |-> ret.elapsed]

StartAddAnimation(node_id, clip, start_time) ==
    /\ node_id \in DOMAIN nodes
    /\ ret.elapsed = F32(0)
    /\ Len(nodes[node_id].animations) < MaxAnims
    /\ nodes' = [nodes EXCEPT ![node_id] =
                    SceneNode_add_animation(@, AnimationInstance_new(clip, start_time))]
    /\ UNCHANGED <<root_nodes, next_id>>
    /\ ret' = [op |-> "add_animation", args |-> <<node_id>>, result |-> None,
               elapsed |-> ret.elapsed]

StartUpdateAnimations(node_id, delta_time) ==
    /\ node_id \in DOMAIN nodes
    /\ ret.elapsed + delta_time <= F32(MaxSeconds)
    /\ LET r == SceneNode_update_animations(nodes[node_id], delta_time)
       IN  /\ nodes' = [nodes EXCEPT ![node_id] = r.node]
           /\ ret' = [op |-> "node_update_animations", args |-> <<delta_time>>,
                      result |-> r.result,
                      old |-> Insert(<< >>, node_id, nodes[node_id].animations),
                      advanced |-> Insert(<< >>, node_id, r.advanced),
                      elapsed |-> ret.elapsed + delta_time]
    /\ UNCHANGED <<root_nodes, next_id>>

NextStart ==
    \/ StartCreateNode
    \/ \E n \in DOMAIN nodes, clip \in Clips, s \in StartTimes : StartAddAnimation(n, clip, s)
    \/ \E n \in DOMAIN nodes, d \in Deltas : StartUpdateAnimations(n, d)

SpecStart == InitStart /\ [][NextStart]_vars

---------------------------------------------------------------------------
\* Finishing clips: inputs (specification SpecFinish)

\* a move whose keyframes are at 1 s and 2 s: duration 1
ClipLate ==
    LET track0 == AnimationTrack_new("position")
        track1 == AnimationTrack_add_keyframe(track0,
                      Keyframe_new(TimeValue_new(F32(1)), Vector3_new(3, 0, 0)))
        track2 == AnimationTrack_add_keyframe(track1,
                      Keyframe_new(TimeValue_new(F32(2)), Vector3_new(7, 0, 0)))
    IN  AnimationClip_add_track(AnimationClip_new, track2)

FinishClips == {ClipFade, ClipCreate, ClipLate, ClipPulse}

NextFinish ==
    \/ AnimCreateNode
    \/ \E n \in DOMAIN nodes, clip \in FinishClips :
          AddAnimation(n, clip, TimeValue_new(F32(0)))
    \/ \E n \in DOMAIN nodes, d \in Deltas : NodeUpdateAnimations(n, d)

SpecFinish == Init /\ [][NextFinish]_vars

---------------------------------------------------------------------------
\* Hierarchy properties (specification Spec)

\* number of occurrences of x in the sequence s
Count(s, x) == Cardinality({i \in 1..Len(s) : s[i] = x})

\* the parents of the nodes of S that exist and have one
ParentsOf(g, S) ==
    {g.nodes[x].parent[1] : x \in {y \in S \cap DOMAIN g.nodes : g.nodes[y].parent # None}}

RECURSIVE UpClosure(_, _, _)
UpClosure(g, S, k) ==
    IF k = 0 THEN S ELSE UpClosure(g, S \cup ParentsOf(g, S), k - 1)

\* every id reached from n by one or more parent links
StrictAncestors(g, n) ==
    UpClosure(g, ParentsOf(g, {n}), Cardinality(DOMAIN g.nodes))

\* n and every node that has n among its ancestors
Subtree(g, n) == {n} \cup {m \in DOMAIN g.nodes : n \in StrictAncestors(g, m)}

ParentErrors == {"ChildNotFound", "ParentNotFound", "CycleDetected"}

\* C1: a parent() call that returns an error (an id absent from the graph, or
\* a link that would close a cycle) changes nothing: nodes, root_nodes and
\* next_id are as before the call; an absent id always gives the not-found
\* error, and the call never panics or fails to return.
C1_ParentErrorLeavesGraph ==
    [][ret'.op = "parent" =>
          /\ ret'.result \in ParentErrors \cup {"Ok"}
          /\ ~HasNode(G, ret'.args[1]) => ret'.result = "ChildNotFound"
          /\ (HasNode(G, ret'.args[1]) /\ ~HasNode(G, ret'.args[2]))
                => ret'.result = "ParentNotFound"
          /\ ret'.result \in ParentErrors => UNCHANGED <<nodes, root_nodes, next_id>>
       ]_vars

\* parent(A, C) was just rejected with CycleDetected where C is a grandchild
\* (or deeper) of A: the chain A -> B -> C of the spec's cycle test
C1_Witness ==
    /\ ret.op = "parent"
    /\ ret.result = "CycleDetected"
    /\ ret.args[1] # ret.args[2]
    /\ nodes[ret.args[2]].parent # Some(ret.args[1])
    /\ ret.args[1] \in StrictAncestors(G, ret.args[2])

NoCycles == \A n \in DOMAIN nodes : n \notin StrictAncestors(G, n)

\* C2: no node is ever its own ancestor through parent links, and a call
\* parent(child, parent) on two existing nodes where parent is child itself
\* or lies in child's subtree is rejected with CycleDetected.
C2_NoCycles ==
    /\ []NoCycles
    /\ [][(/\ ret'.op = "parent"
           /\ HasNode(G, ret'.args[1])
           /\ ret'.args[2] \in Subtree(G, ret'.args[1]))
             => ret'.result = "CycleDetected"]_vars

\* three nodes in a chain, and the last call tried to close it into a cycle
C2_Witness ==
    /\ ret.op = "parent"
    /\ ret.result = "CycleDetected"
    /\ \E a, b, c \in DOMAIN nodes :
          /\ nodes[c].parent = Some(b)
          /\ nodes[b].parent = Some(a)
          /\ ret.args = <<a, c>>

\* C3: parent and children links agree: for existing c and p,
\* c.parent = Some(p) exactly when p.children contains c, and c occurs in
\* p.children at most once.
C3_LinksAgree ==
    \A c \in DOMAIN nodes : \A p \in DOMAIN nodes :
        /\ (nodes[c].parent = Some(p)) <=> Contains(nodes[p].children, c)
        /\ Count(nodes[p].children, c) <= 1

\* the last call moved a child from one parent to another, and both the old
\* and the new parent still exist
C3_Witness ==
    /\ ret.op = "parent"
    /\ ret.result = "Ok"
    /\ ret.old # None
    /\ ret.old[1] # ret.args[2]
    /\ HasNode(G, ret.old[1])
    /\ nodes[ret.args[1]].parent = Some(ret.args[2])

\* every id referenced as a parent, a child or a root is a node of the graph
NoDangling(g) ==
    /\ \A n \in DOMAIN g.nodes :
          /\ g.nodes[n].parent # None => HasNode(g, g.nodes[n].parent[1])
          /\ \A i \in 1..Len(g.nodes[n].children) : HasNode(g, g.nodes[n].children[i])
    /\ \A i \in 1..Len(g.root_nodes) : HasNode(g, g.root_nodes[i])

\* g holds no reference to an id of S
RefersToNone(g, S) ==
    /\ \A n \in DOMAIN g.nodes :
          /\ g.nodes[n].parent # None => g.nodes[n].parent[1] \notin S
          /\ \A i \in 1..Len(g.nodes[n].children) : g.nodes[n].children[i] \notin S
    /\ \A i \in 1..Len(g.root_nodes) : g.root_nodes[i] \notin S

\* C4: remove_node(id) on an existing node returns it and deletes it with
\* every descendant (get_node gives None for each), no remaining parent,
\* children list or root entry refers to a removed id, and the nodes outside
\* the subtree stay; on an absent id it returns None and changes nothing.
\* No reference in the graph ever dangles.
C4_RemoveCascades ==
    /\ []NoDangling(G)
    /\ [][ret'.op = "remove_node" =>
            LET id == ret'.args[1]
                gone == Subtree(G, id)
            IN  IF HasNode(G, id)
                THEN /\ ret'.result = Some(nodes[id])
                     /\ DOMAIN nodes' = (DOMAIN nodes) \ gone
                     /\ \A m \in gone : get_node(G', m) = None
                     /\ RefersToNone(G', gone)
                     /\ next_id' = next_id
                ELSE /\ ret'.result = None
                     /\ UNCHANGED <<nodes, root_nodes, next_id>>
          ]_vars

\* the node just removed had a parent, which is still there, and a child
C4_Witness ==
    /\ ret.op = "remove_node"
    /\ ret.result # None
    /\ ret.result[1].parent # None
    /\ Len(ret.result[1].children) >= 1
    /\ HasNode(G, ret.result[1].parent[1])
    /\ ~HasNode(G, ret.result[1].children[1])

\* C5: a successful parent(child, parent) takes child off root_nodes and off
\* its previous parent's children list, sets child.parent = Some(parent) and
\* leaves child exactly once in parent.children; the same call made again
\* succeeds and leaves the graph as it is.
C5_ParentEffect ==
    [][(ret'.op = "parent" /\ ret'.result = "Ok") =>
          LET c == ret'.args[1]
              p == ret'.args[2]
              old == nodes[c].parent
          IN  /\ ~Contains(root_nodes', c)
              /\ (old # None /\ old[1] # p) => ~Contains(nodes'[old[1]].children, c)
              /\ nodes'[c].parent = Some(p)
              /\ Count(nodes'[p].children, c) = 1
              /\ parent(G', c, p) = [g |-> G', result |-> "Ok"]
       ]_vars

\* the last call moved a node from its grandparent down to a sibling's
\* place: the child's old parent is the parent of its new parent
C5_Witness ==
    /\ ret.op = "parent"
    /\ ret.result = "Ok"
    /\ ret.old # None
    /\ HasNode(G, ret.args[2])
    /\ nodes[ret.args[2]].parent = ret.old
    /\ nodes[ret.args[1]].parent = Some(ret.args[2])

---------------------------------------------------------------------------
\* Transform propagation (specification SpecTransform)

\* sum over the nodes of S of component i of the local position
RECURSIVE SumPosition(_, _, _)
SumPosition(g, S, i) ==
    IF S = {} THEN F32(0)
    ELSE LET x == CHOOSE y \in S : TRUE
         IN  g.nodes[x].local_transform.position[i] + SumPosition(g, S \ {x}, i)

\* product over the nodes of S of component i of the local scale
RECURSIVE ProductScale(_, _, _)
ProductScale(g, S, i) ==
    IF S = {} THEN F32(1)
    ELSE LET x == CHOOSE y \in S : TRUE
         IN  F32_mul(g.nodes[x].local_transform.scale[i], ProductScale(g, S \ {x}, i))

---------------------------------------------------------------------------
\* Visible renderables (specification SpecRender)

RECURSIVE PreOrder(_, _)
\* all nodes below the ids of the sequence s, each before its children
PreOrder(g, s) ==
    IF s = << >> THEN << >>
    ELSE <<Head(s)>> \o PreOrder(g, g.nodes[Head(s)].children) \o PreOrder(g, Tail(s))

\* the node and every ancestor is visible with opacity > 0
ShownWithAncestors(g, n) ==
    \A m \in {n} \cup StrictAncestors(g, n) : g.nodes[m].visible /\ g.nodes[m].opacity > F32(0)

Emitted(g, n) == g.nodes[n].renderable # None /\ ShownWithAncestors(g, n)

RECURSIVE EntriesOf(_, _)
EntriesOf(g, s) ==
    IF s = << >> THEN << >>
    ELSE LET n == Head(s)
         IN  (IF Emitted(g, n)
              THEN <<<<compute_model_matrix(g.nodes[n]), g.nodes[n].renderable[1],
                       g.nodes[n].opacity>>>>
              ELSE << >>) \o EntriesOf(g, Tail(s))

\* C7: get_visible_renderables() returns, in pre-order from the roots, one
\* entry (world matrix, renderable, the node's own opacity) for each node
\* that has a renderable and is, with every ancestor, visible with opacity
\* above 0, and nothing else.
C7_VisibleRenderables ==
    ret.op = "get_visible_renderables" =>
        /\ ret.result = EntriesOf(G, PreOrder(G, root_nodes))
        /\ Len(ret.result) = Cardinality({n \in DOMAIN nodes : Emitted(G, n)})

\* a chain a -> b -> c of circles: a is drawn at half opacity, b has opacity
\* 0, and c, visible and opaque itself, is suppressed with b
C7_Witness ==
    /\ ret.op = "get_visible_renderables"
    /\ Len(ret.result) = 1
    /\ \E a, b, c \in DOMAIN nodes :
          /\ nodes[b].parent = Some(a)
          /\ nodes[c].parent = Some(b)
          /\ nodes[a].opacity = F32(1) \div 2
          /\ nodes[b].visible /\ nodes[b].opacity = F32(0)
          /\ nodes[c].visible /\ nodes[c].opacity = F32(1)
          /\ nodes[c].renderable # None
          /\ ret.result[1][3] = F32(1) \div 2

---------------------------------------------------------------------------
\* Playback properties (specification SpecAnim)

\* the duration D of the instance's clip
DurationOf(a) == AnimationClip_duration(a.clip)

NonLoopingPositive(a) == ~a.clip.loop_animation /\ DurationOf(a) > 0

LoopingPositive(a) == a.clip.loop_animation /\ DurationOf(a) > 0

\* the clip-local time of AnimationInstance::update(t)
LocalOfUpdate(a, t) == IF t - a.start_time > 0 THEN t - a.start_time ELSE 0

\* the clip-local time of a frame step by delta
LocalOfStep(a, delta_time) == a.current_time + delta_time

\* a step of SceneNode::update_animations, alone or for every node
IsFrameStep(r) == r.op \in {"node_update_animations", "update_animations"}

\* what the claim says of a non-looping instance updated to local time
\* local: clamped and finished from D on, playing at local below D
ClampsAt(new, local, D) ==
    IF local >= D
    THEN new.current_time = D /\ ~new.is_playing
    ELSE new.current_time = local /\ new.is_playing

C8_Bounded ==
    \A n \in DOMAIN nodes : \A i \in 1..Len(nodes[n].animations) :
        NonLoopingPositive(nodes[n].animations[i])
            => nodes[n].animations[i].current_time <= DurationOf(nodes[n].animations[i])

C8_Step ==
    /\ ret'.op = "instance_update" =>
          LET old == nodes[ret'.args[1]].animations[ret'.args[2]]
              new == nodes'[ret'.args[1]].animations[ret'.args[2]]
          IN  (old.is_playing /\ NonLoopingPositive(old))
                  => ClampsAt(new, LocalOfUpdate(old, ret'.args[3]), DurationOf(old))
    /\ IsFrameStep(ret') =>
          \A n \in DOMAIN ret'.advanced :
              /\ Len(ret'.advanced[n]) = Len(nodes[n].animations)
              /\ \A i \in 1..Len(nodes[n].animations) :
                    LET old == nodes[n].animations[i]
                    IN  (old.is_playing /\ NonLoopingPositive(old))
                            => ClampsAt(ret'.advanced[n][i],
                                        LocalOfStep(old, ret'.args[1]), DurationOf(old))

\* C8: a playing non-looping instance with duration D > 0 is, by an update
\* whose clip-local time reaches or passes D, set to current_time = D and
\* is_playing = false, and by an update with local time below D left
\* playing at that local time; in every state its current_time is at
\* most D.
C8_NonLoopingClamps == []C8_Bounded /\ [][C8_Step]_vars

\* update(2) on a one-second fade started at 0: not 2 but 1, and finished
C8_Witness ==
    /\ ret.op = "instance_update"
    /\ ret.old.is_playing
    /\ NonLoopingPositive(ret.old)
    /\ LocalOfUpdate(ret.old, ret.args[3]) > DurationOf(ret.old)
    /\ nodes[ret.args[1]].animations[ret.args[2]].current_time = F32(1)
    /\ ~nodes[ret.args[1]].animations[ret.args[2]].is_playing

\* the looping instances of a list, in order
Looping(s) == SelectSeq(s, LAMBDA a : a.clip.loop_animation)

C9_InRange ==
    \A n \in DOMAIN nodes : \A i \in 1..Len(nodes[n].animations) :
        LoopingPositive(nodes[n].animations[i])
            => /\ nodes[n].animations[i].current_time >= 0
               /\ nodes[n].animations[i].current_time < DurationOf(nodes[n].animations[i])

C9_Step ==
    /\ ret'.op = "instance_update" =>
          LET old == nodes[ret'.args[1]].animations[ret'.args[2]]
              new == nodes'[ret'.args[1]].animations[ret'.args[2]]
          IN  (old.is_playing /\ LoopingPositive(old))
                  => /\ new.is_playing
                     /\ new.current_time = LocalOfUpdate(old, ret'.args[3]) % DurationOf(old)
    /\ IsFrameStep(ret') =>
          \A n \in DOMAIN ret'.advanced :
              /\ \A i \in 1..Len(nodes[n].animations) :
                    LET old == nodes[n].animations[i]
                        new == ret'.advanced[n][i]
                    IN  (old.is_playing /\ LoopingPositive(old))
                            => /\ new.is_playing
                               /\ new.current_time =
                                      LocalOfStep(old, ret'.args[1]) % DurationOf(old)
              /\ Looping(nodes'[n].animations) = Looping(ret'.advanced[n])

\* C9: every update of a playing looping instance with duration D > 0 sets
\* current_time to the clip-local time modulo D and leaves it playing and
\* attached; in every state 0 <= current_time < D.
C9_LoopingWraps == []C9_InRange /\ [][C9_Step]_vars

\* update(2.5) on the two-second pulse started at 0 wraps to 0.5
C9_Witness ==
    /\ ret.op = "instance_update"
    /\ ret.old.is_playing
    /\ LoopingPositive(ret.old)
    /\ LocalOfUpdate(ret.old, ret.args[3]) = F32(5) \div 2
    /\ nodes[ret.args[1]].animations[ret.args[2]].current_time = F32(1) \div 2
    /\ nodes[ret.args[1]].animations[ret.args[2]].is_playing

\* the playing instances of a list, in order
Playing(s) == SelectSeq(s, LAMBDA a : a.is_playing)

C10_Step ==
    /\ ret'.op = "instance_update" =>
          LET old == nodes[ret'.args[1]].animations[ret'.args[2]]
          IN  ~old.is_playing => ret'.result = None /\ nodes' = nodes
    /\ IsFrameStep(ret') =>
          \A n \in DOMAIN ret'.advanced :
              LET alone == SceneNode_update_animations(
                               [nodes[n] EXCEPT !.animations = Playing(@)], ret'.args[1])
              IN  /\ \A i \in 1..Len(nodes[n].animations) :
                        ~nodes[n].animations[i].is_playing
                            => ret'.advanced[n][i] = nodes[n].animations[i]
                  /\ nodes'[n].local_transform = alone.node.local_transform
                  /\ nodes'[n].opacity = alone.node.opacity
                  /\ Playing(nodes[n].animations) = << >>
                        => /\ nodes'[n].local_transform = nodes[n].local_transform
                           /\ nodes'[n].opacity = nodes[n].opacity
    /\ ret'.op = "pause" =>
          LET new == nodes'[ret'.args[1]].animations[ret'.args[2]]
              old == nodes[ret'.args[1]].animations[ret'.args[2]]
          IN  ~new.is_playing /\ new.current_time = old.current_time

\* C10: on an instance that is not playing, update(t) returns None and
\* changes nothing; a frame step leaves the instance as it was and gives the
\* node the transform and opacity that its playing instances alone give it;
\* pause() stops the instance at its current_time.
C10_NotPlayingIsFrozen == [][C10_Step]_vars

\* a frame step with a positive delta over a node that holds an instance
\* paused midway next to a playing one: the paused one has not moved
C10_Witness ==
    /\ IsFrameStep(ret)
    /\ ret.args[1] > 0
    /\ \E n \in DOMAIN ret.old : \E i, j \in 1..Len(ret.old[n]) :
          /\ ~ret.old[n][i].is_playing
          /\ ret.old[n][i].current_time > 0
          /\ ret.old[n][j].is_playing
          /\ ret.advanced[n][i] = ret.old[n][i]
          /\ \E k \in 1..Len(nodes[n].animations) : nodes[n].animations[k] = ret.old[n][i]

\* the current_time an instance frozen at a reaches after elapsed more
\* seconds of playback: wrapped when looping, clamped at the duration when
\* not
ContinuedFrom(a, elapsed) ==
    LET local == a.current_time + elapsed
        D == DurationOf(a)
    IN  IF D > 0 /\ a.clip.loop_animation THEN local % D
        ELSE IF D > 0 /\ local >= D THEN D
        ELSE local

\* C11: play() sets is_playing and keeps current_time, and the update that
\* follows it continues from that current_time: an update(t) right after a
\* play() that came right after an update(tp) of the paused instance, with
\* t >= tp, gives the current_time reached from the frozen one in t - tp
\* seconds, whatever time was spent paused before tp.
C11_PlayResumes ==
    /\ ret.op = "play" =>
          LET new == nodes[ret.args[1]].animations[ret.args[2]]
          IN  new.is_playing /\ new.current_time = ret.old.current_time
    /\ (ret.op = "instance_update" /\ ret.resumed_at # None) =>
          LET new == nodes[ret.args[1]].animations[ret.args[2]]
              tp == ret.resumed_at[1]
          IN  ret.args[3] >= tp
                  => new.current_time = ContinuedFrom(ret.old, ret.args[3] - tp)

\* a non-looping instance that reached its clip's duration and stopped there
Finished(a) ==
    /\ ~a.clip.loop_animation
    /\ ~a.is_playing
    /\ DurationOf(a) > 0
    /\ a.current_time >= DurationOf(a)

\* C12: update_animations(delta) removes from the node's list exactly the
\* instances that are non-looping and finished: what is left is, in order,
\* every looping instance and every instance that has not finished.
C12_PrunesExactlyFinished ==
    IsFrameStep(ret) =>
        \A n \in DOMAIN ret.advanced :
            nodes[n].animations = SelectSeq(ret.advanced[n], LAMBDA a : ~Finished(a))

\* the instance has a Vector3 track bound to a field of the local transform
DrivesTransform(a) ==
    \E k \in 1..Len(a.clip.tracks) :
        /\ a.clip.tracks[k].value_type = "Vector3"
        /\ a.clip.tracks[k].name \in {"position", "rotation", "scale"}

\* C13 as stated: update_animations(delta) returns true if and only if the
\* node's local transform after the call differs from the one before it.
C13_TrueIffTransformDiffers ==
    [][ret'.op = "node_update_animations" =>
          \A n \in DOMAIN ret'.old :
              ret'.result <=> (nodes'[n].local_transform # nodes[n].local_transform)]_vars

C13_Step ==
    ret'.op = "node_update_animations" =>
        \A n \in DOMAIN ret'.old :
            /\ ret'.result <=>
                   \E i \in 1..Len(nodes[n].animations) :
                       nodes[n].animations[i].is_playing
                           /\ DrivesTransform(nodes[n].animations[i])
            /\ nodes'[n].local_transform # nodes[n].local_transform => ret'.result

\* C13, amended: update_animations(delta) returns true if and only if a
\* position, rotation or scale track of a playing instance was applied,
\* whether or not the value written differs from the old one; whenever the
\* local transform differs after the call it returns true, and a call that
\* applies only opacity tracks, or none, returns false.
C13_TrueIffTransformTrackApplied == [][C13_Step]_vars

\* a frame step that returned true and left the scale of the pulse, 1.5
C13_Witness ==
    /\ ret.op = "node_update_animations"
    /\ ret.result = TRUE
    /\ \E n \in DOMAIN ret.old :
          nodes[n].local_transform.scale = <<F32(3) \div 2, F32(3) \div 2, F32(3) \div 2>>

---------------------------------------------------------------------------
\* Track binding properties (specification SpecBind)

\* the (instance, track) places of the Vector3 tracks called name in the
\* playing instances of the list
Writers(anims, name) ==
    UNION {{<<i, k>> : k \in {k \in 1..Len(anims[i].clip.tracks) :
                                 /\ anims[i].clip.tracks[k].value_type = "Vector3"
                                 /\ anims[i].clip.tracks[k].name = name}} :
           i \in {i \in 1..Len(anims) : anims[i].is_playing}}

\* the place visited last: instances in list order, tracks in clip order
Latest(W) ==
    CHOOSE p \in W : \A q \in W : q[1] < p[1] \/ (q[1] = p[1] /\ q[2] <= p[2])

\* the sample of the track at place p, at the time its instance was
\* advanced to
SampleAt(advanced, p) ==
    AnimationTrack_sample(advanced[p[1]].clip.tracks[p[2]], advanced[p[1]].current_time)

C14_Step ==
    ret'.op = "node_update_animations" =>
        \A n \in DOMAIN ret'.old :
            LET old == nodes[n]
                new == nodes'[n]
                adv == ret'.advanced[n]
                P == Writers(old.animations, "position")
                S == Writers(old.animations, "scale")
                R == Writers(old.animations, "rotation")
                O == Writers(old.animations, "opacity")
            IN  /\ new.local_transform.position =
                       IF P = {} THEN old.local_transform.position
                       ELSE SampleAt(adv, Latest(P))
                /\ new.local_transform.scale =
                       IF S = {} THEN old.local_transform.scale
                       ELSE SampleAt(adv, Latest(S))
                /\ new.local_transform.rotation[3] =
                       IF R = {} THEN old.local_transform.rotation[3]
                       ELSE SampleAt(adv, Latest(R))[3]
                /\ \A c \in {1, 2, 4} :
                       new.local_transform.rotation[c] = old.local_transform.rotation[c]
                /\ new.opacity =
                       IF O = {} THEN old.opacity
                       ELSE clamp(SampleAt(adv, Latest(O))[1], F32(0), F32(1))
                /\ new.id = old.id
                /\ new.parent = old.parent
                /\ new.children = old.children
                /\ new.visible = old.visible
                /\ new.renderable = old.renderable
                /\ new.world_transform = old.world_transform

\* C14: update_animations binds the tracks of the playing instances by
\* name: position and scale take the sample of their track, of the rotation
\* only z takes it (x, y and w keep their values), opacity takes the sample's
\* x; a field no track names keeps its value, so a track of any other name
\* changes nothing; id, parent, children, visible, renderable and
\* world_transform are never touched.
C14_TracksBoundByName == [][C14_Step]_vars

\* a frame step over a spinning node that carries a track of unknown name
\* as well: z of the rotation is the sample (1 at half a second of 0..4
\* over two seconds), x and y are not the keyframes' 1 and 2
C14_Witness ==
    /\ ret.op = "node_update_animations"
    /\ \E n \in DOMAIN ret.old :
          /\ Writers(ret.old[n], "rotation") # {}
          /\ Writers(ret.old[n], "tint") # {}
          /\ nodes[n].local_transform.rotation = <<F32(0), F32(0), F32(1), F32(1)>>

\* C15: the opacity of every node is within [0, 1] in every state reached
\* by creating nodes, NodeBuilder.opacity(o) for any o, and update_animations
\* with opacity tracks whose keyframes lie below 0 and above 1.
C15_OpacityInRange ==
    \A n \in DOMAIN nodes : nodes[n].opacity >= F32(0) /\ nodes[n].opacity <= F32(1)

\* a frame step whose opacity track sampled 2: 1 is stored
C15_Witness ==
    /\ ret.op = "node_update_animations"
    /\ \E n \in DOMAIN ret.old :
          /\ Writers(ret.old[n], "opacity") # {}
          /\ SampleAt(ret.advanced[n], Latest(Writers(ret.old[n], "opacity")))[1] = F32(2)
          /\ nodes[n].opacity = F32(1)

---------------------------------------------------------------------------
\* Track properties (specification SpecTrack)

\* the value is a Vector3, not the outcome of a panic
IsVector3(v) == Len(v) = 3

\* C16 as stated: sample(t) never panics, returns default_value on an empty
\* track, the first keyframe's value for t <= the first time, the last
\* keyframe's value for t >= the last time, and leaves the track as it was.
C16_SampleBoundaries ==
    ret.op = "sample" =>
        LET kfs == ret.track.keyframes
            t == ret.args[1]
        IN  /\ IsVector3(ret.result)
            /\ kfs = << >> => ret.result = ret.track.default_value
            /\ (kfs # << >> /\ t <= kfs[1].time) => ret.result = kfs[1].value
            /\ (kfs # << >> /\ t >= kfs[Len(kfs)].time) => ret.result = kfs[Len(kfs)].value
            /\ ret.track = ret.old

\* C16, amended: as above, but the last keyframe's value is returned for
\* t >= the last time only when t is also past the first keyframe's time;
\* when all keyframes share the time t the first one's value is returned.
C16_SampleBoundariesFirstWins ==
    ret.op = "sample" =>
        LET kfs == ret.track.keyframes
            t == ret.args[1]
        IN  /\ IsVector3(ret.result)
            /\ kfs = << >> => ret.result = ret.track.default_value
            /\ (kfs # << >> /\ t <= kfs[1].time) => ret.result = kfs[1].value
            /\ (kfs # << >> /\ t > kfs[1].time /\ t >= kfs[Len(kfs)].time)
                   => ret.result = kfs[Len(kfs)].value
            /\ ret.track = ret.old

\* a sample at the one time all keyframes share, their values differing:
\* the first keyframe's value comes back
C16_Witness ==
    /\ ret.op = "sample"
    /\ Len(ret.track.keyframes) >= 2
    /\ ret.track.keyframes[1].time = ret.args[1]
    /\ ret.track.keyframes[Len(ret.track.keyframes)].time = ret.args[1]
    /\ ret.track.keyframes[1].value # ret.track.keyframes[Len(ret.track.keyframes)].value
    /\ ret.result = ret.track.keyframes[1].value

\* C17: after any sequence of add_keyframe calls the keyframes are in
\* non-decreasing order of time and are, counted with repetitions, exactly
\* the keyframes that were added.
C17_KeyframesSorted ==
    LET kfs == ret.track.keyframes
    IN  /\ \A i \in 1..(Len(kfs) - 1) : kfs[i].time <= kfs[i + 1].time
        /\ Len(kfs) = Len(ret.added)
        /\ \A i \in 1..Len(ret.added) : Count(kfs, ret.added[i]) = Count(ret.added, ret.added[i])

\* three keyframes added latest first, the third equal to the first: the
\* list starts with the second and holds the repeated one twice
C17_Witness ==
    /\ ret.op = "add_keyframe"
    /\ Len(ret.added) = 3
    /\ ret.added[1].time > ret.added[2].time
    /\ ret.added[3] = ret.added[1]
    /\ ret.track.keyframes[1] = ret.added[2]
    /\ Count(ret.track.keyframes, ret.added[1]) = 2

\* the segments of the track whose times enclose t: kf0.time <= t < kf1.time
Enclosing(kfs, t) == {i \in 1..(Len(kfs) - 1) : kfs[i].time <= t /\ t < kfs[i + 1].time}

\* C24: for t strictly between the first and the last keyframe time there
\* is exactly one pair of adjacent keyframes kf0, kf1 with
\* kf0.time <= t < kf1.time, and sample(t) is kf0.value.lerp(kf1.value, e)
\* with e = kf0's interpolation applied to
\* (t - kf0.time) / (kf1.time - kf0.time); for Step that is kf0.value.
C24_SegmentLerp ==
    LET kfs == ret.track.keyframes
        t == ret.args[1]
    IN  (ret.op = "sample" /\ kfs # << >> /\ kfs[1].time < t /\ t < kfs[Len(kfs)].time) =>
            /\ Cardinality(Enclosing(kfs, t)) = 1
            /\ \A i \in Enclosing(kfs, t) :
                  LET kf0 == kfs[i]
                      kf1 == kfs[i + 1]
                      e == InterpolationType_apply(kf0.interpolation,
                               F32_div(t - kf0.time, kf1.time - kf0.time))
                  IN  /\ ret.result = Vector3_lerp(kf0.value, kf1.value, e)
                      /\ kf0.interpolation = "Step" => ret.result = kf0.value
                      /\ (kf0.interpolation = "Linear" /\ 2 * (t - kf0.time) = kf1.time - kf0.time) =>
                            \A c \in 1..3 : 2 * ret.result[c] = kf0.value[c] + kf1.value[c]

\* Linear keyframes (0, 0) and (1, 10), then a third one: sample(0.5) is 5
C24_Witness ==
    /\ ret.op = "sample"
    /\ Len(ret.track.keyframes) = 3
    /\ ret.track.keyframes[1] = Keyframe_new(TimeValue_new(F32(0)), Vector3_new(0, 0, 0))
    /\ ret.track.keyframes[2] = Keyframe_new(TimeValue_new(F32(1)), Vector3_new(10, 0, 0))
    /\ ret.args[1] = F32(1) \div 2
    /\ ret.result = Vector3_new(5, 0, 0)

\* C25: when two adjacent keyframes have the same time, sampling at that
\* time returns the value of the earlier of the two, and nothing is divided
\* by zero.
C25_ZeroSegmentEarlier ==
    LET kfs == ret.track.keyframes
        t == ret.args[1]
    IN  ret.op = "sample" =>
            /\ ret.divisor # Some(F32(0))
            /\ \A i \in 1..(Len(kfs) - 1) :
                  (kfs[i].time = kfs[i + 1].time /\ t = kfs[i].time) => ret.result = kfs[i].value

\* the index of the last keyframe at time t
LastAt(kfs, t) == CHOOSE j \in 1..Len(kfs) :
    kfs[j].time = t /\ \A k \in (j + 1)..Len(kfs) : kfs[k].time # t

\* C25 (amended): when two adjacent keyframes have the same time, sampling
\* at that time returns the first keyframe's value if that time is the
\* first keyframe's time and otherwise the value of the last keyframe that
\* has that time, and nothing is divided by zero.
C25_ZeroSegmentLatest ==
    LET kfs == ret.track.keyframes
        t == ret.args[1]
    IN  ret.op = "sample" =>
            /\ ret.divisor # Some(F32(0))
            /\ \A i \in 1..(Len(kfs) - 1) :
                  (kfs[i].time = kfs[i + 1].time /\ t = kfs[i].time) =>
                      ret.result = IF t = kfs[1].time THEN kfs[1].value
                                   ELSE kfs[LastAt(kfs, t)].value

\* keyframes at 0, 1, 1 and 2 with different values at 1, sampled at 1: the
\* value of the later of the two
C25_Witness ==
    /\ ret.op = "sample"
    /\ Len(ret.track.keyframes) = 4
    /\ ret.track.keyframes[1].time < ret.track.keyframes[2].time
    /\ ret.track.keyframes[2].time = ret.track.keyframes[3].time
    /\ ret.track.keyframes[3].time < ret.track.keyframes[4].time
    /\ ret.args[1] = ret.track.keyframes[2].time
    /\ ret.track.keyframes[2].value # ret.track.keyframes[3].value
    /\ ret.result = ret.track.keyframes[3].value

---------------------------------------------------------------------------
\* Clip properties (specification SpecClip)

\* last keyframe time minus first keyframe time; 0 below two keyframes
Span(track) ==
    IF Len(track.keyframes) < 2 THEN 0
    ELSE track.keyframes[Len(track.keyframes)].time - track.keyframes[1].time

\* the largest element of a set of numbers, 0 for the empty set
MaxOf(S) == IF S = {} THEN 0 ELSE CHOOSE m \in S : \A x \in S : x <= m

\* C18: AnimationClip.duration() is the maximum over the clip's tracks of
\* last keyframe time minus first keyframe time, 0 for a clip without
\* tracks, a track with fewer than two keyframes counting as 0.
C18_ClipDuration ==
    ret.op = "clip_duration" =>
        ret.result = MaxOf({Span(ret.clip.tracks[k]) : k \in 1..Len(ret.clip.tracks)})

\* a clip of a track over [0, 2] and a track over [0, 5]: duration 5
C18_Witness ==
    /\ ret.op = "clip_duration"
    /\ Len(ret.clip.tracks) = 2
    /\ \E j, k \in 1..2 :
          /\ Span(ret.clip.tracks[j]) = F32(2)
          /\ Span(ret.clip.tracks[k]) = F32(5)
    /\ ret.result = F32(5)

---------------------------------------------------------------------------
\* Node id properties (specification SpecIds)

\* C19: create_node and create_node_with_transform return an id strictly
\* greater than every id returned earlier, so no id is handed out twice, not
\* even after the node that held it was removed; the node created is in the
\* graph as a root, without parent and without children.
C19_FreshIds ==
    /\ \A i, j \in 1..Len(ret.issued) : i < j => ret.issued[i] < ret.issued[j]
    /\ ret.op \in {"create_node", "create_node_with_transform"} =>
          /\ ret.result \in DOMAIN nodes
          /\ nodes[ret.result].id = ret.result
          /\ nodes[ret.result].parent = None
          /\ nodes[ret.result].children = << >>
          /\ Count(root_nodes, ret.result) = 1

\* a third node created after the first one created was removed
C19_Witness ==
    /\ ret.op = "create_node"
    /\ Len(ret.issued) = 3
    /\ ret.issued[1] \notin DOMAIN nodes
    /\ ret.result > ret.issued[1]
    /\ ret.result = ret.issued[3]

---------------------------------------------------------------------------
\* Effect properties (specification SpecEffects)

\* the two keyframes of a track running from value `from` at 0 to value `to`
\* at d, both Linear
Ramp(from, to, d) ==
    <<[time |-> 0, value |-> from, interpolation |-> "Linear"],
      [time |-> d, value |-> to, interpolation |-> "Linear"]>>

\* C20: for d > 0, create(d) returns a non-looping clip with exactly two
\* tracks, "opacity" from 0 to 1 and "scale" from (0,0,0) to (1,1,1) over
\* [0, d], both Linear; the clip's duration is d; sampled at d/2 the opacity
\* track gives 0.5 and the scale track gives (0.5, 0.5, 0.5).
C20_CreateEffect ==
    LET d == ret.duration
        tracks == ret.clip.tracks
    IN  /\ ret.op = "create" =>
              /\ ~ret.result.loop_animation
              /\ Len(ret.result.tracks) = 2
              /\ \E j, k \in 1..2 :
                    /\ j # k
                    /\ ret.result.tracks[j].name = "opacity"
                    /\ ret.result.tracks[j].keyframes = Ramp(Vector3_new(0, 0, 0), Vector3_new(1, 0, 0), d)
                    /\ ret.result.tracks[k].name = "scale"
                    /\ ret.result.tracks[k].keyframes = Ramp(Vector3_new(0, 0, 0), Vector3_new(1, 1, 1), d)
        /\ ret.op = "clip_duration" => ret.result = d
        /\ (ret.op = "sample_tracks" /\ 2 * ret.args[1] = d) =>
              /\ Len(ret.result) = 2
              /\ \A k \in 1..2 :
                    /\ tracks[k].name = "opacity" => ret.result[k][1] = F32(1) \div 2
                    /\ tracks[k].name = "scale" =>
                          ret.result[k] = <<F32(1) \div 2, F32(1) \div 2, F32(1) \div 2>>
              /\ \E k \in 1..2 : tracks[k].name = "opacity"
              /\ \E k \in 1..2 : tracks[k].name = "scale"

\* create(1.5 s) sampled at 0.75 s: opacity 0.5, scale 0.5
C20_Witness ==
    /\ ret.op = "sample_tracks"
    /\ ret.duration = F32(3) \div 2
    /\ ret.args[1] = F32(3) \div 4
    /\ ret.result[1][1] = F32(1) \div 2
    /\ ret.result[2] = <<F32(1) \div 2, F32(1) \div 2, F32(1) \div 2>>

---------------------------------------------------------------------------
\* TimeValue properties (specification SpecTime)

\* C21: a TimeValue is never negative: after any sequence of new, +, -, %,
\* += and -= its value is >= 0; a subtraction that would go below zero
\* yields 0 and a remainder by zero yields 0.
C21_NeverNegative ==
    /\ ret.value >= F32(0)
    /\ (ret.op \in {"sub", "sub_assign"} /\ ret.old < ret.args[1]) => ret.value = F32(0)
    /\ (ret.op = "rem" /\ ret.args[1] = F32(0)) => ret.value = F32(0)

---------------------------------------------------------------------------
\* Clips of duration 0 (specification SpecHold)

ZeroDuration(a) == DurationOf(a) = F32(0)

\* the instances of a list whose clip has duration 0
Zeros(s) == SelectSeq(s, ZeroDuration)

\* the values of the tracks of the instance's clip at clip-local time t
SampledValues(a, t) ==
    [k \in 1..Len(a.clip.tracks) |-> AnimationTrack_sample(a.clip.tracks[k], t)]

\* every instance of duration 0 is playing, and none is dropped by a frame
\* step
ZeroDurationStays ==
    /\ \A n \in DOMAIN nodes : \A i \in 1..Len(nodes[n].animations) :
          ZeroDuration(nodes[n].animations[i]) => nodes[n].animations[i].is_playing
    /\ IsFrameStep(ret) =>
          \A n \in DOMAIN ret.advanced :
              /\ Len(ret.advanced[n]) = Len(ret.old[n])
              /\ \A i \in 1..Len(ret.old[n]) :
                    ZeroDuration(ret.old[n][i]) <=> ZeroDuration(ret.advanced[n][i])
              /\ Zeros(nodes[n].animations) = Zeros(ret.advanced[n])

\* C26: an instance whose clip has duration 0 never finishes under update
\* and update_animations calls: is_playing stays true, the values sampled
\* from its tracks are those of the initial sample (at clip-local time 0),
\* and no frame step removes it from the node's list.
C26_ZeroDurationHolds ==
    /\ ZeroDurationStays
    /\ \A n \in DOMAIN nodes : \A i \in 1..Len(nodes[n].animations) :
          LET a == nodes[n].animations[i]
          IN  ZeroDuration(a) => SampledValues(a, a.current_time) = SampledValues(a, F32(0))

\* all keyframes of the track carry the same value
OneValue(track) ==
    \A j, k \in 1..Len(track.keyframes) : track.keyframes[j].value = track.keyframes[k].value

\* C26 (amended): as C26, but the values sampled are those of the initial
\* sample only for a track whose keyframes all carry the same value; a
\* track whose keyframes share one time and differ in value gives the first
\* keyframe's value up to that time and the last keyframe's value after it.
C26_ZeroDurationHoldsOneValue ==
    /\ ZeroDurationStays
    /\ \A n \in DOMAIN nodes : \A i \in 1..Len(nodes[n].animations) :
          LET a == nodes[n].animations[i]
          IN  ZeroDuration(a) =>
                  \A k \in 1..Len(a.clip.tracks) :
                      LET track == a.clip.tracks[k]
                          kfs == track.keyframes
                          now == AnimationTrack_sample(track, a.current_time)
                      IN  IF OneValue(track)
                          THEN now = AnimationTrack_sample(track, F32(0))
                          ELSE now = IF a.current_time <= kfs[1].time THEN kfs[1].value
                                     ELSE kfs[Len(kfs)].value

\* a single-keyframe instance after frame steps that took its clock to 2 s,
\* next to which a fade finished and was removed: still attached and
\* playing, the node at the keyframe's position
C26_Witness ==
    /\ ret.op = "node_update_animations"
    /\ \E n \in DOMAIN nodes :
          /\ Len(ret.old[n]) = 2
          /\ Len(nodes[n].animations) = 1
          /\ nodes[n].animations[1].clip = ClipHold
          /\ nodes[n].animations[1].is_playing
          /\ nodes[n].animations[1].current_time = F32(2)
          /\ nodes[n].local_transform.position = Vector3_new(3, 0, 0)

---------------------------------------------------------------------------
\* Root list (specification Spec)

\* C27: root_nodes holds exactly the existing nodes without parent, each
\* once; so the walk from the roots along children links, which
\* update_transforms and get_visible_renderables make, comes by every
\* existing node exactly once.
C27_RootsExact ==
    /\ \A i \in 1..Len(root_nodes) : root_nodes[i] \in DOMAIN nodes
    /\ \A n \in DOMAIN nodes :
          /\ Count(root_nodes, n) = IF nodes[n].parent = None THEN 1 ELSE 0
          /\ Count(PreOrder(G, root_nodes), n) = 1
    /\ Len(PreOrder(G, root_nodes)) = Cardinality(DOMAIN nodes)

\* the last call made a root the child of another node while a third node
\* stays a root
C27_Witness ==
    /\ ret.op = "parent"
    /\ ret.result = "Ok"
    /\ ret.old = None
    /\ Cardinality(DOMAIN nodes) = 3
    /\ Len(root_nodes) = 2
    /\ ~Contains(root_nodes, ret.args[1])
    /\ Contains(nodes[ret.args[2]].children, ret.args[1])

---------------------------------------------------------------------------
\* Start times (specification SpecStart)

\* C28: after update_animations calls with deltas summing to G an instance
\* with start_time s has the current_time and is_playing that
\* AnimationInstance::update(G) gives: clip-local time G - s floored at 0,
\* wrapped at the duration when looping, clamped there and stopped when
\* not; an instance with s > G has not advanced.
C28_FrameMatchesUpdate ==
    IsFrameStep(ret) =>
        \A n \in DOMAIN ret.advanced : \A i \in 1..Len(ret.advanced[n]) :
            LET a == ret.advanced[n][i]
                local == LocalOfUpdate(a, ret.elapsed)
                D == DurationOf(a)
                ends == D > 0 /\ ~a.clip.loop_animation /\ local >= D
            IN  /\ a.current_time = IF D > 0 /\ a.clip.loop_animation THEN local % D
                                     ELSE IF ends THEN D
                                     ELSE local
                /\ a.is_playing = ~ends
                /\ a.start_time >= ret.elapsed => a.current_time = F32(0)

---------------------------------------------------------------------------
\* Finishing clips (specification SpecFinish)

\* the value of the node's field that a track of this name is bound to
FieldOf(node, name) ==
    CASE name = "position" -> node.local_transform.position
      [] name = "scale" -> node.local_transform.scale
      [] name = "opacity" -> <<node.opacity, F32(0), F32(0)>>

\* what the field holds after a track of this name wrote v
Written(name, v) == IF name = "opacity" THEN <<clamp(v[1], F32(0), F32(1)), F32(0), F32(0)>> ELSE v

\* C29: when a non-looping instance with positive duration finishes in an
\* update_animations call and no other playing instance of the node has a
\* track of the same name, then after the call, in which the instance is
\* pruned, the position, scale and opacity its tracks drive hold the value
\* of the last keyframe of the track (opacity clamped to [0, 1]).
C29_EndsOnLastKeyframe ==
    ret.op = "node_update_animations" =>
        \A n \in DOMAIN ret.advanced : \A i \in 1..Len(ret.advanced[n]) :
            LET a == ret.advanced[n][i]
                old == ret.old[n]
            IN  (old[i].is_playing /\ Finished(a)) =>
                    \A k \in 1..Len(a.clip.tracks) :
                        LET track == a.clip.tracks[k]
                            kfs == track.keyframes
                        IN  (/\ track.name \in {"position", "scale", "opacity"}
                             /\ kfs # << >>
                             /\ Writers(old, track.name) = {<<i, k>>})
                                => FieldOf(nodes[n], track.name) =
                                       Written(track.name, kfs[Len(kfs)].value)

---------------------------------------------------------------------------
\* Several instances on one property (specification SpecBind)

\* the playing instances of the list that have a track of this name
Drivers(anims, name) == {p[1] : p \in Writers(anims, name)}

\* the last track of this name in the instance's clip
LastTrack(a, name) ==
    a.clip.tracks[CHOOSE k \in 1..Len(a.clip.tracks) :
        /\ a.clip.tracks[k].name = name
        /\ a.clip.tracks[k].value_type = "Vector3"
        /\ \A j \in (k + 1)..Len(a.clip.tracks) :
              a.clip.tracks[j].name # name \/ a.clip.tracks[j].value_type # "Vector3"]

\* what the instance, advanced by the call, samples for this name
SampleOf(a, name) == AnimationTrack_sample(LastTrack(a, name), a.current_time)

\* C30: after update_animations a property that tracks of several playing
\* instances are bound to holds the sample of the instance that is latest
\* in the node's animation list, and a property driven by one instance
\* holds that instance's sample whatever the other instances are.
C30_LatestInstanceWins ==
    ret.op = "node_update_animations" =>
        \A n \in DOMAIN ret.advanced : \A name \in {"position", "scale", "opacity"} :
            LET D == Drivers(ret.old[n], name)
            IN  D # {} =>
                    LET last == CHOOSE i \in D : \A j \in D : j <= i
                    IN  FieldOf(nodes[n], name) =
                            Written(name, SampleOf(ret.advanced[n][last], name))

\* two playing instances with opacity tracks that sample different values:
\* the node has the second one's, and the scale only the second drives
C30_Witness ==
    /\ ret.op = "node_update_animations"
    /\ \E n \in DOMAIN ret.advanced :
          /\ Drivers(ret.old[n], "opacity") = {1, 2}
          /\ Drivers(ret.old[n], "scale") = {2}
          /\ Written("opacity", SampleOf(ret.advanced[n][1], "opacity")) #
                 Written("opacity", SampleOf(ret.advanced[n][2], "opacity"))
          /\ nodes[n].opacity = SampleOf(ret.advanced[n][2], "opacity")[1]
          /\ nodes[n].local_transform.scale = SampleOf(ret.advanced[n][2], "scale")

---------------------------------------------------------------------------
\* Frame properties (specification SpecFrame)

\* the world transform that propagation gives node n from the local
\* transforms of g: positions summed and scales multiplied from the root
\* down, the node's own rotation
PropagatedWorld(g, n) ==
    LET chain == {n} \cup StrictAncestors(g, n)
    IN  [position |-> <<SumPosition(g, chain, 1), SumPosition(g, chain, 2),
                        SumPosition(g, chain, 3)>>,
         rotation |-> g.nodes[n].local_transform.rotation,
         scale |-> <<ProductScale(g, chain, 1), ProductScale(g, chain, 2),
                     ProductScale(g, chain, 3)>>]

\* node n without its world transform
WithoutWorld(node) == [node EXCEPT !.world_transform = Transform_new]

\* C22: SceneGraph.update_animations(delta) updates every node and then, if
\* and only if at least one node reported a transform change, propagates
\* world transforms once, from the local transforms all nodes have after
\* their update; when no node reported a change every world_transform is
\* what it was before the call.
C22_BatchedPropagation ==
    ret.op = "update_animations" =>
        LET any == \E n \in DOMAIN ret.reported : ret.reported[n]
        IN  /\ DOMAIN nodes = DOMAIN ret.before.nodes
            /\ \A n \in DOMAIN nodes :
                  WithoutWorld(nodes[n]) =
                      WithoutWorld(SceneNode_update_animations(ret.before.nodes[n], ret.args[1]).node)
            /\ any => \A n \in DOMAIN nodes : nodes[n].world_transform = PropagatedWorld(G, n)
            /\ ~any => \A n \in DOMAIN nodes :
                          nodes[n].world_transform = ret.before.nodes[n].world_transform

\* a parent visited after its child reported a change, the child none: the
\* child's world transform moved with the parent's new scale
C22_Witness ==
    /\ ret.op = "update_animations"
    /\ \E c, p \in DOMAIN nodes :
          /\ nodes[c].parent = Some(p)
          /\ ret.order = <<c, p>>
          /\ ret.reported[p]
          /\ ~ret.reported[c]
          /\ nodes[c].world_transform # ret.before.nodes[c].world_transform
          /\ nodes[c].world_transform.scale # nodes[c].local_transform.scale

\* C23: the graph after SceneGraph.update_animations(delta) is the same for
\* every order in which the nodes are visited: local transforms, opacities,
\* animation lists and world transforms.
C23_OrderIndependent ==
    ret.op = "update_animations" =>
        \A order \in Orders(DOMAIN ret.before.nodes) :
            SceneGraph_update_animations(ret.before, order, ret.args[1]).g = G

\* two nodes, the one visited first reported a transform change and the
\* one visited last none, and an opacity changed in the same call
C23_Witness ==
    /\ ret.op = "update_animations"
    /\ Len(ret.order) = 2
    /\ ret.reported[ret.order[1]]
    /\ ~ret.reported[ret.order[2]]
    /\ nodes[ret.order[2]].opacity # ret.before.nodes[ret.order[2]].opacity
    /\ nodes[ret.order[1]].world_transform # ret.before.nodes[ret.order[1]].world_transform

====
